---------------------------- MODULE Spec2Model ----------------------------
(***************************************************************************)
(* A model of fellow-mcp: the local cache (FellowDatabase), the sync       *)
(* orchestrator (syncNotesFromApi, performIncrementalSync), the text       *)
(* extractor (extractActionItems, parseAssigneeAndDueDate) and the remote  *)
(* list endpoints they talk to.                                            *)
(*                                                                         *)
(* Text is a sequence of one-character strings, so that the regular        *)
(* expressions of the extractor and String.trim are computed, not assumed. *)
(***************************************************************************)
EXTENDS Integers, Sequences, FiniteSets, TLC

\* An optional value is a sequence of length 0 or 1: None is JavaScript's
\* null / undefined and SQL's NULL, Some(v) is the value v.
None == <<>>

Some(v) == <<v>>

IsSome(o) == o # None

\* JavaScript truthiness of an optional string or array: present and not empty.
Truthy(o) == o # None /\ Len(o[1]) > 0

\* a ?? b
Coalesce(a, b) == IF a # None THEN a ELSE b

\* The element of a one-element set. Value({e : x \in {a}}) is e with x standing for
\* the value of a, computed once: how a JavaScript call binds its arguments.
Value(S) == CHOOSE v \in S : TRUE

-----------------------------------------------------------------------------
(* Text helpers *)

Drop(s, k) == SubSeq(s, k + 1, Len(s))

Take(s, k) == SubSeq(s, 1, k)

\* \s of a JavaScript regular expression, and the characters String.trim strips.
SpaceChars == {" ", "\t", "\n"}

DigitChars == {"0", "1", "2", "3", "4", "5", "6", "7", "8", "9"}

UpperChars == <<"A", "B", "C", "D", "E", "I", "L", "M", "N", "O", "T", "U", "X", "Y">>

LowerChars == <<"a", "b", "c", "d", "e", "i", "l", "m", "n", "o", "t", "u", "x", "y">>

\* The upper-case letters texts are made of.
UpperSet == {"A", "B", "C", "D", "E", "I", "L", "M", "N", "O", "T", "U", "X", "Y"}

\* \w of a JavaScript regular expression: [A-Za-z0-9_].
WordChars ==
  DigitChars \cup {"_"} \cup {UpperChars[k] : k \in 1..Len(UpperChars)}
    \cup {LowerChars[k] : k \in 1..Len(LowerChars)}
    \cup {"f", "g", "h", "j", "k", "p", "r", "s", "v", "w"}

IsSpace(c) == c \in SpaceChars

IsDigit(c) == c \in DigitChars

IsWord(c) == c \in WordChars

\* String.toLowerCase on one character; also the /i flag of a regular expression.
ToLower(c) ==
  IF c \in UpperSet
  THEN LowerChars[CHOOSE k \in 1..Len(UpperChars) : UpperChars[k] = c]
  ELSE c

\* The position after the longest run of characters of the class C that starts
\* at position i of s (a greedy C* of a regular expression).
RunEnd(sArg, iArg, CArg) ==
  Value({(
      CHOOSE j \in i..(Len(s) + 1) :
        /\ \A k \in i..(j - 1) : s[k] \in C
        /\ (j = Len(s) + 1 \/ s[j] \notin C)
  ) : s \in {sArg}, i \in {iArg}, C \in {CArg}})

SkipWs(s, i) == RunEnd(s, i, SpaceChars)

\* String.prototype.trim
Trim(sArg) ==
  Value({(
      LET a == SkipWs(s, 1)
      IN IF a > Len(s) THEN <<>>
         ELSE LET b == CHOOSE j \in a..Len(s) :
                         /\ ~IsSpace(s[j])
                         /\ \A k \in (j + 1)..Len(s) : IsSpace(s[k])
              IN SubSeq(s, a, b)
  ) : s \in {sArg}})

\* Whether the literal lit occurs at position i of s (ci: ignoring case).
LitAt(sArg, iArg, litArg, ci) ==
  Value({(
      /\ i + Len(lit) - 1 <= Len(s)
      /\ \A k \in 1..Len(lit) :
           IF ci THEN ToLower(s[i + k - 1]) = ToLower(lit[k]) ELSE s[i + k - 1] = lit[k]
  ) : s \in {sArg}, i \in {iArg}, lit \in {litArg}})

\* String.prototype.split("\n")
RECURSIVE Split(_)
Split(sArg) ==
  Value({(
      IF \E k \in 1..Len(s) : s[k] = "\n"
      THEN LET k == CHOOSE j \in 1..Len(s) : s[j] = "\n" /\ \A m \in 1..(j - 1) : s[m] # "\n"
           IN <<Take(s, k - 1)>> \o Split(Drop(s, k))
      ELSE <<s>>
  ) : s \in {sArg}})

\* String.prototype.padStart(2, "0")
PadStart2(s) == IF Len(s) < 2 THEN <<"0">> \o s ELSE s

\* String.prototype.toLowerCase
LowerCase(s) == [k \in 1..Len(s) |-> ToLower(s[k])]

\* String.prototype.indexOf, counted from 0; -1 when needle does not occur.
IndexOf(hayArg, needleArg) ==
  Value({(
      IF \E k \in 0..(Len(hay) - Len(needle)) : SubSeq(hay, k + 1, k + Len(needle)) = needle
      THEN CHOOSE k \in 0..(Len(hay) - Len(needle)) :
             /\ SubSeq(hay, k + 1, k + Len(needle)) = needle
             /\ \A j \in 0..(k - 1) : SubSeq(hay, j + 1, j + Len(needle)) # needle
      ELSE 0 - 1
  ) : hay \in {hayArg}, needle \in {needleArg}})

\* String.prototype.substring(start, end), for 0 <= start <= end <= length
Substring(s, start, end) == SubSeq(s, start + 1, end)

\* String.prototype.replace(/\n/g, " ")
NewlinesToSpaces(s) == [k \in 1..Len(s) |-> IF s[k] = "\n" THEN " " ELSE s[k]]

RECURSIVE LikeAt(_, _, _, _)
\* SQLite's LIKE from position i of the pattern and position j of the text: % is
\* any run of characters, _ is any one character, any other character is itself
\* in either case (ASCII letters); there is no escape character.
LikeAt(pat, text, iArg, jArg) ==
  Value({(
      IF i > Len(pat) THEN j > Len(text)
      ELSE IF pat[i] = "%" THEN \E k \in j..(Len(text) + 1) : LikeAt(pat, text, i + 1, k)
      ELSE /\ j <= Len(text)
           /\ (pat[i] = "_" \/ ToLower(pat[i]) = ToLower(text[j]))
           /\ LikeAt(pat, text, i + 1, j + 1)
  ) : i \in {iArg}, j \in {jArg}})

\* text LIKE pat; NULL LIKE pat is not true.
Like(text, pat) == text # None /\ LikeAt(pat, text[1], 1, 1)

-----------------------------------------------------------------------------
(* Text extractor *)

\* What the tail \s*(.+) of the three line patterns captures in (.+) when matched
\* against the rest r of a line: the greedy \s* gives one character back when r
\* is all white space. None: no match (r is empty).
TailGroup(rArg) ==
  Value({(
      IF Len(r) = 0 THEN None
      ELSE LET a == SkipWs(r, 1)
           IN IF a > Len(r) THEN Some(Drop(r, Len(r) - 1)) ELSE Some(Drop(r, a - 1))
  ) : r \in {rArg}})

\* line.match(/^\s*[-*]\s*\[([ xX])\]\s*(.+)/): None, or groups 1 and 2.
CheckboxMatch(line) ==
  Value({(
      IF ~(i1 <= Len(line) /\ line[i1] \in {"-", "*"}) THEN None
      ELSE Value({(
          IF ~(/\ i2 + 2 <= Len(line)
               /\ line[i2] = "["
               /\ line[i2 + 1] \in {" ", "x", "X"}
               /\ line[i2 + 2] = "]")
          THEN None
          ELSE Value({(
              IF g = None THEN None ELSE Some([g1 |-> <<line[i2 + 1]>>, g2 |-> g[1]])
          ) : g \in {TailGroup(Drop(line, i2 + 2))}})
      ) : i2 \in {SkipWs(line, i1 + 1)}})
  ) : i1 \in {SkipWs(line, 1)}})

\* The alternatives of (?:Action\s*Item|Action|TODO|To-Do|To Do), in order.
ActionLabels ==
  << <<"A", "c", "t", "i", "o", "n">>,
     <<"T", "O", "D", "O">>,
     <<"T", "o", "-", "D", "o">>,
     <<"T", "o", " ", "D", "o">> >>

\* The positions at which (?:Action\s*Item|Action|TODO|To-Do|To Do)\s*: can end
\* (the position after the colon) when the label starts at position i of line.
LabelEnds(line, iArg) ==
  Value({(
      LET item == <<"I", "t", "e", "m">>
          colonAfter(j) ==
            Value({(
                IF c <= Len(line) /\ line[c] = ":" THEN {c + 1} ELSE {}
            ) : c \in {SkipWs(line, j)}})
          actionItem ==
            IF LitAt(line, i, ActionLabels[1], TRUE)
            THEN Value({(
                IF LitAt(line, j, item, TRUE) THEN colonAfter(j + 4) ELSE {}
            ) : j \in {SkipWs(line, i + 6)}})
            ELSE {}
          plain ==
            UNION {IF LitAt(line, i, ActionLabels[k], TRUE)
                   THEN colonAfter(i + Len(ActionLabels[k])) ELSE {} : k \in 1..Len(ActionLabels)}
      IN actionItem \cup plain
  ) : i \in {iArg}})

\* line.match(/^\s*[-*]?\s*(?:Action\s*Item|Action|TODO|To-Do|To Do)\s*:\s*(.+)/i):
\* None, or group 1.
ActionMatch(line) ==
  Value({(
      Value({(
          IF ends = {} THEN None
          ELSE TailGroup(Drop(line, (CHOOSE e \in ends : TRUE) - 1))
      ) : ends \in {LabelEnds(line, IF i1 <= Len(line) /\ line[i1] \in {"-", "*"}
                                    THEN SkipWs(line, i1 + 1) ELSE i1)}})
  ) : i1 \in {SkipWs(line, 1)}})

\* line.match(/^\s*[-*]\s*(@\w+[\w\s]*?)\s*[-:]\s*(.+)/): None, or groups 1 and 2.
\* The lazy [\w\s]*? stops at the first position from which \s*[-:] matches, so
\* group 1 ends before the white space that precedes the separator.
MentionMatch(line) ==
  Value({(
      IF ~(i1 <= Len(line) /\ line[i1] \in {"-", "*"}) THEN None
      ELSE Value({(
          IF ~(/\ i2 + 1 <= Len(line)
               /\ line[i2] = "@"
               /\ IsWord(line[i2 + 1]))
          THEN None
          ELSE Value({(
              IF ~(sep <= Len(line) /\ line[sep] \in {"-", ":"}) THEN None
              ELSE Value({(
                  IF g = None THEN None
                  ELSE Some([g1 |-> SubSeq(line, i2, e), g2 |-> g[1]])
              ) : g \in {TailGroup(Drop(line, sep))},
                  e \in {CHOOSE j \in (i2 + 1)..(sep - 1) :
                           /\ \A k \in j..(sep - 1) : k = j \/ IsSpace(line[k])
                           /\ \A m \in (i2 + 1)..(j - 1) :
                                ~(\A k \in m..(sep - 1) : k = m \/ IsSpace(line[k]))}})
          ) : sep \in {RunEnd(line, i2 + 1, WordChars \cup SpaceChars)}})
      ) : i2 \in {SkipWs(line, i1 + 1)}})
  ) : i1 \in {SkipWs(line, 1)}})

\* The alternatives of (?:due|by|deadline), in order.
DueKeywords ==
  << <<"d", "u", "e">>,
     <<"b", "y">>,
     <<"d", "e", "a", "d", "l", "i", "n", "e">> >>

\* The positions at which (?:due|by|deadline)\s*:?\s* can end (where the date must
\* start) when the keyword starts at position i of text.
DatePrefixEnds(text, i) ==
  UNION {IF LitAt(text, i, DueKeywords[k], TRUE)
         THEN Value({(
             IF j1 <= Len(text) /\ text[j1] = ":" THEN {SkipWs(text, j1 + 1)} ELSE {j1}
         ) : j1 \in {SkipWs(text, i + Len(DueKeywords[k]))}})
         ELSE {} : k \in 1..Len(DueKeywords)}

\* Whether \d{n} matches at position p of text.
DigitsAt(text, p, n) ==
  /\ p + n - 1 <= Len(text)
  /\ \A k \in p..(p + n - 1) : IsDigit(text[k])

\* (\d{4}-\d{2}-\d{2}) at position p of text: None, or the group.
IsoDateAt(text, p) ==
  IF /\ DigitsAt(text, p, 4)
     /\ LitAt(text, p + 4, <<"-">>, FALSE)
     /\ DigitsAt(text, p + 5, 2)
     /\ LitAt(text, p + 7, <<"-">>, FALSE)
     /\ DigitsAt(text, p + 8, 2)
  THEN Some(SubSeq(text, p, p + 9))
  ELSE None

\* (\d{1,2}\/\d{1,2}\/\d{2,4}) at position p of text: None, or the group. A
\* greedy \d{1,2} followed by "/" matches exactly a run of one or two digits; the
\* greedy \d{2,4} takes up to four digits of a run of at least two. m, d and y are
\* the lengths of the runs of digits where the month, the day and the year start.
UsDateAt(text, p) ==
  Value({(
      IF ~(m \in {1, 2} /\ LitAt(text, p + m, <<"/">>, FALSE)) THEN None
      ELSE Value({(
          IF ~(d \in {1, 2} /\ LitAt(text, p + m + 1 + d, <<"/">>, FALSE)) THEN None
          ELSE Value({(
              IF y < 2 THEN None
              ELSE Some(SubSeq(text, p, p + m + d + 2 + (IF y > 4 THEN 4 ELSE y) - 1))
          ) : y \in {RunEnd(text, p + m + d + 2, DigitChars) - (p + m + d + 2)}})
      ) : d \in {RunEnd(text, p + m + 1, DigitChars) - (p + m + 1)}})
  ) : m \in {RunEnd(text, p, DigitChars) - p}})

\* The group of the leftmost match of (?:due|by|deadline)\s*:?\s*(<date>) in text,
\* where iso chooses the date pattern; None when there is no match.
DueDateSearch(text, iso) ==
  LET at(i) == {g \in {IF iso THEN IsoDateAt(text, p) ELSE UsDateAt(text, p) :
                         p \in DatePrefixEnds(text, i)} : g # None}
  IN Value({(
         IF starts = {} THEN None
         ELSE CHOOSE g \in at(CHOOSE j \in starts : \A k \in starts : j <= k) : TRUE
     ) : starts \in {{i \in 1..Len(text) : at(i) # {}}}})

\* The parts of "a/b/c".split("/") for a matched US date.
SlashParts(dArg) ==
  Value({(
      Value({(
          Value({(
              <<SubSeq(d, 1, s1 - 1), SubSeq(d, s1 + 1, s2 - 1), Drop(d, s2)>>
          ) : s2 \in {CHOOSE j \in (s1 + 1)..Len(d) :
                        d[j] = "/" /\ \A k \in (s1 + 1)..(j - 1) : d[k] # "/"}})
      ) : s1 \in {CHOOSE j \in 1..Len(d) : d[j] = "/" /\ \A k \in 1..(j - 1) : d[k] # "/"}})
  ) : d \in {dArg}})

\* text.match(/@(\w+)/): None, or group 1.
FirstMention(text) ==
  Value({(
      IF starts = {} THEN None
      ELSE LET i == CHOOSE j \in starts : \A k \in starts : j <= k
           IN Some(SubSeq(text, i + 1, RunEnd(text, i + 1, WordChars) - 1))
  ) : starts \in {{i \in 1..(Len(text) - 1) : text[i] = "@" /\ IsWord(text[i + 1])}}})

\* The due date of a US date match d: parts = d.split("/"), month and day padded,
\* a two-digit year prefixed with "20".
UsDueDate(d) ==
  Value({(
      LET month == PadStart2(parts[1])
          day == PadStart2(parts[2])
          year == IF Len(parts[3]) = 2 THEN <<"2", "0">> \o parts[3] ELSE parts[3]
      IN year \o <<"-">> \o month \o <<"-">> \o day
  ) : parts \in {SlashParts(d)}})

\* parseAssigneeAndDueDate with the US form tried first: the ISO date is used only
\* when no US date follows a keyword.
parseAssigneeAndDueDate_UsFirst(textArg) ==
  Value({(
      Value({(
          [assignee |-> FirstMention(text),
           dueDate |-> IF usDateMatch # None THEN Some(UsDueDate(usDateMatch[1]))
                       ELSE isoDateMatch]
      ) : isoDateMatch \in {DueDateSearch(text, TRUE)},
          usDateMatch \in {DueDateSearch(text, FALSE)}})
  ) : text \in {textArg}})

parseAssigneeAndDueDate(textArg) ==
  Value({(
      Value({(
          [assignee |-> FirstMention(text),
           dueDate |-> IF isoDateMatch # None THEN isoDateMatch
                       ELSE IF usDateMatch # None THEN Some(UsDueDate(usDateMatch[1]))
                       ELSE None]
      ) : isoDateMatch \in {DueDateSearch(text, TRUE)},
          usDateMatch \in {DueDateSearch(text, FALSE)}})
  ) : text \in {textArg}})

\* The item pushed for a line the checkbox pattern matches.
CheckboxItem(checkboxMatch) ==
  Value({(
      Value({(
          <<[content |-> itemContent,
             assignee |-> parsed.assignee,
             due_date |-> parsed.dueDate,
             is_completed |-> ToLower(checkboxMatch[1].g1[1]) = "x"]>>
      ) : parsed \in {parseAssigneeAndDueDate(itemContent)}})
  ) : itemContent \in {Trim(checkboxMatch[1].g2)}})

\* The item pushed for a line the labelled pattern matches.
ActionItem(actionMatch) ==
  Value({(
      Value({(
          <<[content |-> itemContent,
             assignee |-> parsed.assignee,
             due_date |-> parsed.dueDate,
             is_completed |-> FALSE]>>
      ) : parsed \in {parseAssigneeAndDueDate(itemContent)}})
  ) : itemContent \in {Trim(actionMatch[1])}})

\* The item pushed for a line the mention pattern matches.
MentionItem(mentionMatch) ==
  Value({(
      Value({(
          <<[content |-> <<"@">> \o assignee \o <<":", " ">> \o itemContent,
             assignee |-> Some(assignee),
             due_date |-> parsed.dueDate,
             is_completed |-> FALSE]>>
      ) : parsed \in {parseAssigneeAndDueDate(itemContent)}})
  ) : assignee \in {Trim(Drop(mentionMatch[1].g1, 1))},
      itemContent \in {Trim(mentionMatch[1].g2)}})

\* The item extractActionItems pushes for one line: a sequence of no or one item.
LineItems(lineArg) ==
  Value({(
      Value({(
          IF checkboxMatch # None THEN CheckboxItem(checkboxMatch)
          ELSE IF actionMatch # None THEN ActionItem(actionMatch)
          ELSE IF mentionMatch # None THEN MentionItem(mentionMatch)
          ELSE <<>>
      ) : checkboxMatch \in {CheckboxMatch(line)},
          actionMatch \in {ActionMatch(line)},
          mentionMatch \in {MentionMatch(line)}})
  ) : line \in {lineArg}})

RECURSIVE ItemsOfLines(_)
ItemsOfLines(linesArg) ==
  Value({(
      IF lines = <<>> THEN <<>> ELSE LineItems(Head(lines)) \o ItemsOfLines(Tail(lines))
  ) : lines \in {linesArg}})

\* extractActionItems with unshift in the place of push: the items come out in
\* the reverse of the order of the lines.
extractActionItems_LastFirst(content) ==
  Value({(
      [k \in 1..Len(items) |-> items[Len(items) + 1 - k]]
  ) : items \in {ItemsOfLines(Split(content))}})

extractActionItems(content) == ItemsOfLines(Split(content))

-----------------------------------------------------------------------------
(* Bounds of the model, and the data the remote side may hold *)

\* The remote returns at most MaxPageLen entities per page (never more than the
\* page_size asked for).
MaxPageLen == 1

\* The number of changes made to the remote data in one behaviour.
MaxRemoteWrites == 2

\* The number of tool calls in one behaviour.
MaxCalls == 2

NoteIds == {"n1", "n2"}

RecordingIds == {"r1", "r2"}

\* The order in which the remote lists its entities.
ListOrder == <<"n1", "n2", "r1", "r2">>

\* "-[x]a by 1/2/24"
ContentA == <<"-", "[", "x", "]", "a", " ", "b", "y", " ", "1", "/", "2", "/", "2", "4">>

\* "todo: b\n* @al - c"
ContentB ==
  <<"t", "o", "d", "o", ":", " ", "b", "\n", "*", " ", "@", "a", "l", " ", "-", " ", "c">>

\* "Ab"
TitleA == <<"A", "b">>

\* "cd"
TitleB == <<"c", "d">>

EmailA == <<"a", "@", "x">>

EmailB == <<"b", "@", "x">>

\* The note the remote holds at the start.
FirstNote ==
  [title |-> TitleA, event_start |-> Some(1),
   content_markdown |-> Some(ContentA), event_attendees |-> Some(<<EmailA, EmailB>>)]

\* What a change of the remote may make of a note: its title, its event_start (a
\* time, if any), and content_markdown and event_attendees, each present or not
\* (an empty string and an empty list are present; an attendee may come with
\* white space around it, and twice).
NoteVersions ==
  { [title |-> TitleB, event_start |-> Some(3),
     content_markdown |-> Some(ContentB), event_attendees |-> Some(<<<<" ">> \o EmailB, EmailB>>)],
    [title |-> TitleA, event_start |-> None,
     content_markdown |-> None, event_attendees |-> None],
    [title |-> TitleB, event_start |-> Some(3),
     content_markdown |-> Some(<<>>), event_attendees |-> Some(<<>>)] }

TranscriptA == [language_code |-> "en", speech_segments |-> <<"s1">>]

TranscriptB == [language_code |-> "en", speech_segments |-> <<"s2">>]

\* The recordings the remote holds at the start.
FirstRecordings ==
  [r \in RecordingIds |->
     IF r = "r1" THEN [note_id |-> Some("n1"), transcript |-> Some(TranscriptA)]
     ELSE [note_id |-> Some("n2"), transcript |-> Some(TranscriptB)]]

\* What a change of the remote may make of a recording: the note it belongs to
\* (if any) and its transcript (if any).
RecordingVersions ==
  { [note_id |-> Some("n2"), transcript |-> Some(TranscriptB)],
    [note_id |-> None, transcript |-> None] }

-----------------------------------------------------------------------------
(* Local store: class FellowDatabase *)

EmptyDb ==
  [notes |-> [n \in NoteIds |-> None],
   recordings |-> [r \in RecordingIds |-> None],
   action_items |-> [n \in NoteIds |-> <<>>],
   participants |-> [n \in NoteIds |-> <<>>],
   last_sync |-> None]

\* upsertNote with content_markdown = excluded.content_markdown, no COALESCE.
upsertNote_NoCoalesce(d, note) ==
  [d EXCEPT !.notes[note.id] =
     Some([title |-> note.title, updated_at |-> note.updated_at,
           event_start |-> note.event_start,
           content_markdown |-> note.content_markdown])]

\* INSERT ... ON CONFLICT(id) DO UPDATE SET title = excluded.title,
\* updated_at = excluded.updated_at, event_start = excluded.event_start, ...,
\* content_markdown = COALESCE(excluded.content_markdown, content_markdown)
upsertNote(d, note) ==
  [d EXCEPT !.notes[note.id] =
     IF @ = None
     THEN Some([title |-> note.title, updated_at |-> note.updated_at,
                event_start |-> note.event_start,
                content_markdown |-> note.content_markdown])
     ELSE Some([title |-> note.title, updated_at |-> note.updated_at,
                event_start |-> note.event_start,
                content_markdown |-> Coalesce(note.content_markdown, @[1].content_markdown)])]

getNote(d, id) == d.notes[id]

\* upsertRecording with transcript_json = excluded.transcript_json, no COALESCE.
upsertRecording_NoCoalesce(d, recording) ==
  [d EXCEPT !.recordings[recording.id] =
     Some([note_id |-> recording.note_id,
           updated_at |-> recording.updated_at,
           transcript_json |-> recording.transcript_json])]

\* INSERT ... ON CONFLICT(id) DO UPDATE SET note_id = excluded.note_id, ...,
\* transcript_json = COALESCE(excluded.transcript_json, transcript_json)
upsertRecording(d, recording) ==
  [d EXCEPT !.recordings[recording.id] =
     IF @ = None
     THEN Some([note_id |-> recording.note_id,
                updated_at |-> recording.updated_at,
                transcript_json |-> recording.transcript_json])
     ELSE Some([note_id |-> recording.note_id,
                updated_at |-> recording.updated_at,
                transcript_json |-> Coalesce(recording.transcript_json, @[1].transcript_json)])]

\* clearActionItemsForNote deleting nothing.
clearActionItemsForNote_Noop(d, noteId) == d

\* DELETE FROM action_items WHERE note_id = ?
clearActionItemsForNote(d, noteId) == [d EXCEPT !.action_items[noteId] = <<>>]

\* INSERT INTO action_items: the new row gets the largest id, so the rows of a
\* note are kept in insertion order.
insertActionItem(d, item) ==
  [d EXCEPT !.action_items[item.note_id] =
     Append(@, [content |-> item.content,
                assignee |-> item.assignee,
                due_date |-> item.due_date,
                is_completed |-> IF item.is_completed THEN 1 ELSE 0])]

\* DELETE FROM participants WHERE note_id = ?
clearParticipantsForNote(d, noteId) == [d EXCEPT !.participants[noteId] = <<>>]

\* insertParticipant as a plain INSERT on a table without the UNIQUE constraint.
insertParticipant_NoIgnore(d, noteId, email) ==
  [d EXCEPT !.participants[noteId] = Append(@, email)]

\* INSERT OR IGNORE INTO participants: ignored when UNIQUE(note_id, email) fails.
insertParticipant(d, noteId, email) ==
  [d EXCEPT !.participants[noteId] =
     IF \E k \in 1..Len(@) : @[k] = email THEN @ ELSE Append(@, email)]

getParticipantsForNote(d, noteId) == d.participants[noteId]

getLastSyncTime(d) == d.last_sync

\* setLastSyncTime that writes the watermark only when the store has none.
setLastSyncTime_KeepsEarlier(d, time) ==
  IF d.last_sync = None THEN [d EXCEPT !.last_sync = Some(time)] ELSE d

setLastSyncTime(d, time) == [d EXCEPT !.last_sync = Some(time)]

\* The row SELECT n.* gives for the stored note n.
NoteRow(d, n) ==
  [id |-> n,
   title |-> d.notes[n][1].title,
   event_start |-> d.notes[n][1].event_start,
   content_markdown |-> d.notes[n][1].content_markdown]

\* ORDER BY event_start DESC compares event_start, NULL being the least value.
EventStartKey(d, n) ==
  IF d.notes[n][1].event_start = None THEN 0 - 1 ELSE d.notes[n][1].event_start[1]

\* The place of the row of n in the notes table (the order of insertion is not
\* kept by the model; rows of equal event_start come in the order of ListOrder).
RowPlace(n) == CHOOSE k \in 1..Len(ListOrder) : ListOrder[k] = n

RECURSIVE OrderByEventStartDesc(_, _)
\* ORDER BY n.event_start DESC over the notes of the set S.
OrderByEventStartDesc(d, SArg) ==
  Value({(
      IF S = {} THEN <<>>
      ELSE Value({(
               <<first>> \o OrderByEventStartDesc(d, S \ {first})
           ) : first \in {CHOOSE x \in S : \A y \in S \ {x} :
                             \/ EventStartKey(d, x) > EventStartKey(d, y)
                             \/ /\ EventStartKey(d, x) = EventStartKey(d, y)
                                /\ RowPlace(x) < RowPlace(y)}})
  ) : S \in {SArg}})

\* The ids of the notes table in the order ORDER BY event_start DESC gives.
NotesByEventStart(d) == OrderByEventStartDesc(d, {n \in NoteIds : d.notes[n] # None})

RECURSIVE Flatten(_)
\* The rows of a sequence of row sequences, in order.
Flatten(ssArg) ==
  Value({(
      IF ss = <<>> THEN <<>> ELSE Head(ss) \o Flatten(Tail(ss))
  ) : ss \in {ssArg}})

RECURSIVE Distinct(_)
\* SELECT DISTINCT: every row once, at the place where it comes first.
Distinct(rowsArg) ==
  Value({(
      IF rows = <<>> THEN <<>>
      ELSE Value({(
               IF \E k \in 1..Len(front) : front[k] = rows[Len(rows)]
               THEN front ELSE Append(front, rows[Len(rows)])
           ) : front \in {Distinct(SubSeq(rows, 1, Len(rows) - 1))}})
  ) : rows \in {rowsArg}})

\* getAllNotes: SELECT * FROM notes ORDER BY event_start DESC
getAllNotes(d) ==
  Value({[k \in 1..Len(ids) |-> NoteRow(d, ids[k])] : ids \in {NotesByEventStart(d)}})

\* searchNotes: WHERE title LIKE ? OR content_markdown LIKE ?, both with the
\* pattern %query%, ORDER BY event_start DESC.
searchNotes(d, query) ==
  Value({(
      Flatten([k \in 1..Len(ids) |->
                 IF \/ Like(Some(d.notes[ids[k]][1].title), pattern)
                    \/ Like(d.notes[ids[k]][1].content_markdown, pattern)
                 THEN <<NoteRow(d, ids[k])>> ELSE <<>>])
  ) : ids \in {NotesByEventStart(d)}, pattern \in {<<"%">> \o query \o <<"%">>}})

\* getAllActionItems(filters): action_items JOIN notes, with a.assignee LIKE
\* %assignee% when filters.assignee is truthy, a.is_completed = ? when
\* filters.is_completed is not undefined, n.event_start >= ? when filters.since
\* is truthy; ORDER BY n.event_start DESC.
getAllActionItems(d, filters) ==
  Value({(
      Flatten([k \in 1..Len(ids) |->
        Flatten([j \in 1..Len(d.action_items[ids[k]]) |->
          Value({(
              IF /\ (filters.assignee # None /\ filters.assignee[1] # <<>>) =>
                      Like(a.assignee, <<"%">> \o filters.assignee[1] \o <<"%">>)
                 /\ filters.is_completed # None =>
                      a.is_completed = (IF filters.is_completed[1] THEN 1 ELSE 0)
                 /\ filters.since # None =>
                      /\ d.notes[ids[k]][1].event_start # None
                      /\ d.notes[ids[k]][1].event_start[1] >= filters.since[1]
              THEN <<[note_id |-> ids[k],
                      content |-> a.content,
                      assignee |-> a.assignee,
                      due_date |-> a.due_date,
                      is_completed |-> a.is_completed,
                      note_title |-> d.notes[ids[k]][1].title,
                      event_start |-> d.notes[ids[k]][1].event_start]>>
              ELSE <<>>
          ) : a \in {d.action_items[ids[k]][j]}})])])
  ) : ids \in {NotesByEventStart(d)}})

\* The set of the values of a list.
Range(list) == {list[k] : k \in 1..Len(list)}

\* getMeetingsByParticipants: SELECT DISTINCT n.* FROM notes n JOIN participants p
\* ON n.id = p.note_id WHERE p.email IN (...) ORDER BY n.event_start DESC
getMeetingsByParticipants(d, emails) ==
  IF Len(emails) = 0 THEN <<>>
  ELSE Value({(
           Distinct(Flatten([k \in 1..Len(ids) |->
             Flatten([j \in 1..Len(d.participants[ids[k]]) |->
               IF d.participants[ids[k]][j] \in Range(emails)
               THEN <<NoteRow(d, ids[k])>> ELSE <<>>])]))
       ) : ids \in {NotesByEventStart(d)}})

\* getMeetingsWithAllParticipants: SELECT n.* FROM notes n WHERE (SELECT
\* COUNT(DISTINCT p.email) FROM participants p WHERE p.note_id = n.id AND p.email
\* IN (...)) = emails.length ORDER BY n.event_start DESC
getMeetingsWithAllParticipants(d, emails) ==
  IF Len(emails) = 0 THEN <<>>
  ELSE Value({(
           Flatten([k \in 1..Len(ids) |->
             IF Cardinality(Range(d.participants[ids[k]]) \cap Range(emails)) = Len(emails)
             THEN <<NoteRow(d, ids[k])>> ELSE <<>>])
       ) : ids \in {NotesByEventStart(d)}})

\* getStats: COUNT(*) of notes, recordings and action_items, COUNT(DISTINCT email)
\* of participants.
getStats(d) ==
  [notes |-> Cardinality({n \in NoteIds : d.notes[n] # None}),
   recordings |-> Cardinality({r \in RecordingIds : d.recordings[r] # None}),
   action_items |->
     Cardinality(UNION {{<<n, k>> : k \in 1..Len(d.action_items[n])} : n \in NoteIds}),
   participants |-> Cardinality(UNION {Range(d.participants[n]) : n \in NoteIds})]

-----------------------------------------------------------------------------
(* Remote client: class FellowClient, and the remote list endpoints *)

\* const pageSize = 50
pageSize == 50

\* The body FellowClient.listNotes posts to /notes. A filter or an include flag
\* is put in the body only when the option is truthy; the cursor is cursor ?? null.
listNotesBody(options) ==
  [endpoint |-> "/notes",
   updated_at_start |-> options.updated_at_start,
   include |-> (IF options.include_content THEN {"content_markdown"} ELSE {})
                 \cup (IF options.include_attendees THEN {"event_attendees"} ELSE {}),
   cursor |-> options.cursor,
   page_size |-> options.page_size]

\* The body FellowClient.listRecordings posts to /recordings.
listRecordingsBody(options) ==
  [endpoint |-> "/recordings",
   updated_at_start |-> options.updated_at_start,
   include |-> IF options.include_transcript THEN {"transcript"} ELSE {},
   cursor |-> options.cursor,
   page_size |-> options.page_size]

\* A response with response.ok: its body is the JSON of the page asked for.
OkReply == [ok |-> TRUE, status |-> 200, body |-> "json"]

\* The responses without response.ok a request may get: a status and a raw body.
HttpErrors ==
  { [ok |-> FALSE, status |-> 401, body |-> "Unauthorized"],
    [ok |-> FALSE, status |-> 500, body |-> ""] }

\* new Error(`Fellow API error (${response.status}): ${errorText}`), as the parts
\* of its message.
ApiError(r) == <<"Fellow API error (", r.status, "): ", r.body>>

\* FellowClient.request once fetch has given the response r, json being what
\* response.json() gives: it throws when r is not ok, else returns the JSON.
FellowClient_request(r, json) ==
  IF ~r.ok
  THEN [throws |-> TRUE, error |-> ApiError(r)]
  ELSE [throws |-> FALSE, value |-> json]

RECURSIVE SelectIds(_, _)
\* The ids of ListOrder, from position k on, that are in the set S.
SelectIds(k, S) ==
  IF k > Len(ListOrder) THEN <<>>
  ELSE (IF ListOrder[k] \in S THEN <<ListOrder[k]>> ELSE <<>>) \o SelectIds(k + 1, S)

\* The page of ids a list endpoint answers with: the entities of table that pass
\* the updated_at_start filter, from the offset the cursor stands for, at most
\* min(page_size, MaxPageLen) of them; and the next cursor (None on the last page).
RemotePage(table, body) ==
  LET matching == SelectIds(1, {i \in DOMAIN table :
                    /\ table[i] # None
                    /\ (body.updated_at_start # None =>
                          table[i][1].updated_at >= body.updated_at_start[1])})
      from == IF body.cursor = None THEN 0 ELSE body.cursor[1]
      len == IF body.page_size < MaxPageLen THEN body.page_size ELSE MaxPageLen
      upto == IF from + len < Len(matching) THEN from + len ELSE Len(matching)
  IN [ids |-> SubSeq(matching, from + 1, upto),
      cursor |-> IF upto < Len(matching) THEN Some(upto) ELSE None]

\* NotesResponse: the optional fields are populated only when asked for.
NotesResponse(table, body) ==
  LET pg == RemotePage(table, body)
  IN [data |-> [k \in 1..Len(pg.ids) |->
                  [id |-> pg.ids[k],
                   title |-> table[pg.ids[k]][1].title,
                   updated_at |-> table[pg.ids[k]][1].updated_at,
                   event_start |-> table[pg.ids[k]][1].event_start,
                   content_markdown |->
                     IF "content_markdown" \in body.include
                     THEN table[pg.ids[k]][1].content_markdown ELSE None,
                   event_attendees |->
                     IF "event_attendees" \in body.include
                     THEN table[pg.ids[k]][1].event_attendees ELSE None]],
      cursor |-> pg.cursor]

\* RecordingsResponse
RecordingsResponse(table, body) ==
  LET pg == RemotePage(table, body)
  IN [data |-> [k \in 1..Len(pg.ids) |->
                  [id |-> pg.ids[k],
                   updated_at |-> table[pg.ids[k]][1].updated_at,
                   note_id |-> table[pg.ids[k]][1].note_id,
                   transcript |->
                     IF "transcript" \in body.include
                     THEN table[pg.ids[k]][1].transcript ELSE None]],
      cursor |-> pg.cursor]

-----------------------------------------------------------------------------
(* Sync orchestrator: syncNotesFromApi, performIncrementalSync *)

ZeroResult ==
  [notes_synced |-> 0, recordings_synced |-> 0, action_items_found |-> 0,
   participants_synced |-> 0]

\* JSON.stringify(transcript)
JsonStringify(t) == <<"language_code", t.language_code, "speech_segments", t.speech_segments>>

RECURSIVE InsertActionItems(_, _, _)
\* for (const item of actionItems) db.insertActionItem({note_id, ...item})
InsertActionItems(dArg, noteId, itemsArg) ==
  Value({(
      IF items = <<>> THEN d
      ELSE InsertActionItems(
             insertActionItem(d, [note_id |-> noteId,
                                  content |-> Head(items).content,
                                  assignee |-> Head(items).assignee,
                                  due_date |-> Head(items).due_date,
                                  is_completed |-> Head(items).is_completed]),
             noteId, Tail(items))
  ) : d \in {dArg}, items \in {itemsArg}})

\* if (email && typeof email === "string" && email.trim())
ValidEmail(email) == Len(email) > 0 /\ Len(Trim(email)) > 0

RECURSIVE InsertParticipants(_, _, _)
\* for (const email of note.event_attendees) ... db.insertParticipant(note.id, email.trim())
InsertParticipants(dArg, noteId, emailsArg) ==
  Value({(
      IF emails = <<>> THEN d
      ELSE InsertParticipants(
             IF ValidEmail(Head(emails)) THEN insertParticipant(d, noteId, Trim(Head(emails))) ELSE d,
             noteId, Tail(emails))
  ) : d \in {dArg}, emails \in {emailsArg}})

\* The number of valid emails: how often participants_synced++ runs.
RECURSIVE CountValid(_)
CountValid(emailsArg) ==
  Value({(
      IF emails = <<>> THEN 0
      ELSE (IF ValidEmail(Head(emails)) THEN 1 ELSE 0) + CountValid(Tail(emails))
  ) : emails \in {emailsArg}})

\* const actionItems = extractActionItems(note.content_markdown), inside
\* if (note.content_markdown): None when the content is absent or empty.
ExtractedItems(note) ==
  IF Truthy(note.content_markdown)
  THEN Some(extractActionItems(note.content_markdown[1]))
  ELSE None

\* if (note.content_markdown) { clear; extract; insert each }
SyncActionItems(d, noteId, actionItems) ==
  IF actionItems # None
  THEN InsertActionItems(clearActionItemsForNote(d, noteId), noteId, actionItems[1])
  ELSE d

\* if (note.event_attendees && note.event_attendees.length > 0) { clear; insert each }
SyncParticipants(d, note) ==
  IF Truthy(note.event_attendees)
  THEN InsertParticipants(clearParticipantsForNote(d, note.id), note.id, note.event_attendees[1])
  ELSE d

\* The body of the loop over notesResp.notes.data, on the store d and the counts res.
SyncNote(d, res, note) ==
  Value({(
      [db |-> SyncParticipants(
                SyncActionItems(
                  upsertNote(d, [id |-> note.id,
                                 title |-> note.title,
                                 updated_at |-> note.updated_at,
                                 event_start |-> Coalesce(note.event_start, None),
                                 content_markdown |-> Coalesce(note.content_markdown, None)]),
                  note.id, actionItems),
                note),
       result |->
         [res EXCEPT
            !.notes_synced = @ + 1,
            !.action_items_found = @ + (IF actionItems # None THEN Len(actionItems[1]) ELSE 0),
            !.participants_synced =
              @ + (IF Truthy(note.event_attendees) THEN CountValid(note.event_attendees[1]) ELSE 0)]]
  ) : actionItems \in {ExtractedItems(note)}})

\* SkipRecording without the look-up of the note: no recording is skipped.
SkipRecording_Never(d, recording) == FALSE

\* if (recording.note_id && !db.getNote(recording.note_id)) continue
SkipRecording(d, recording) ==
  recording.note_id # None /\ getNote(d, recording.note_id[1]) = None

\* The body of the loop over recordingsResp.recordings.data.
SyncRecording(d, res, recording) ==
  IF SkipRecording(d, recording)
  THEN [db |-> d, result |-> res]
  ELSE [db |-> upsertRecording(d, [id |-> recording.id,
                                   note_id |-> recording.note_id,
                                   updated_at |-> recording.updated_at,
                                   transcript_json |->
                                     IF recording.transcript # None
                                     THEN Some(JsonStringify(recording.transcript[1]))
                                     ELSE None]),
        result |-> [res EXCEPT !.recordings_synced = @ + 1]]

\* IncrementalOptions with the filter always set: lastSync ?? the earliest time.
IncrementalOptions_SinceEpoch(lastSync) ==
  [since |-> Coalesce(lastSync, Some(0)), includeTranscripts |-> None]

\* The options performIncrementalSync passes to syncNotesFromApi, given the
\* stored watermark: none when there is no watermark, else { since: lastSync }.
IncrementalOptions(lastSync) ==
  IF lastSync = None
  THEN [since |-> None, includeTranscripts |-> None]
  ELSE [since |-> lastSync, includeTranscripts |-> None]

\* The options the sync_meetings tool passes when force is set.
ForcedOptions(include_transcripts) ==
  [since |-> None, includeTranscripts |-> include_transcripts]

\* The request syncNotesFromApi makes for a page of notes.
NotesRequest(options, cur) ==
  listNotesBody([updated_at_start |-> options.since,
                 include_content |-> TRUE,
                 include_attendees |-> TRUE,
                 cursor |-> Coalesce(cur, None),
                 page_size |-> pageSize])

\* RecordingsRequest without updated_at_start: options.since.
RecordingsRequest_NoSince(options, cur) ==
  [endpoint |-> "/recordings",
   updated_at_start |-> None,
   include |-> IF Coalesce(options.includeTranscripts, Some(FALSE))[1] THEN {"transcript"} ELSE {},
   cursor |-> Coalesce(cur, None),
   page_size |-> pageSize]

\* The request syncNotesFromApi makes for a page of recordings:
\* include_transcript is options.includeTranscripts ?? false.
RecordingsRequest(options, cur) ==
  listRecordingsBody([updated_at_start |-> options.since,
                      include_transcript |-> Coalesce(options.includeTranscripts, Some(FALSE))[1],
                      cursor |-> Coalesce(cur, None),
                      page_size |-> pageSize])

RECURSIVE SyncNotes(_, _, _, _)
\* The loop over the notes of one page, from position k on.
SyncNotes(d, res, data, k) ==
  IF k > Len(data) THEN [db |-> d, result |-> res]
  ELSE Value({SyncNotes(st.db, st.result, data, k + 1) : st \in {SyncNote(d, res, data[k])}})

RECURSIVE SyncRecordings(_, _, _, _)
\* The loop over the recordings of one page, from position k on.
SyncRecordings(d, res, data, k) ==
  IF k > Len(data) THEN [db |-> d, result |-> res]
  ELSE Value({SyncRecordings(st.db, st.result, data, k + 1) :
                st \in {SyncRecording(d, res, data[k])}})

RECURSIVE NotesLoop(_, _, _, _, _)
\* The do ... while (cursor) loop over the pages of notes, against a remote that
\* answers every request and does not change meanwhile.
NotesLoop(d, res, rem, opts, cur) ==
  Value({(
      Value({(
          IF resp.cursor # None THEN NotesLoop(st.db, st.result, rem, opts, resp.cursor) ELSE st
      ) : st \in {SyncNotes(d, res, resp.data, 1)}})
  ) : resp \in {NotesResponse(rem.notes, NotesRequest(opts, cur))}})

RECURSIVE RecordingsLoop(_, _, _, _, _)
\* The do ... while (cursor) loop over the pages of recordings, likewise.
RecordingsLoop(d, res, rem, opts, cur) ==
  Value({(
      Value({(
          IF resp.cursor # None
          THEN RecordingsLoop(st.db, st.result, rem, opts, resp.cursor) ELSE st
      ) : st \in {SyncRecordings(d, res, resp.data, 1)}})
  ) : resp \in {RecordingsResponse(rem.recordings, RecordingsRequest(opts, cur))}})

\* syncNotesFromApi run from the store d to its end without interruption, against
\* a remote rem that answers every request and does not change, with the options
\* opts, finishing at time t: the store and the counts it returns.
syncNotesFromApi(d, rem, opts, t) ==
  Value({(
      Value({(
          [db |-> setLastSyncTime(st2.db, t), result |-> st2.result]
      ) : st2 \in {RecordingsLoop(st1.db, st1.result, rem, opts, None)}})
  ) : st1 \in {NotesLoop(d, ZeroResult, rem, opts, None)}})

-----------------------------------------------------------------------------
(* Configuration: parseArgs, getClient *)

\* parseArgs, on the API key and the subdomain found on the command line or else
\* in the environment (None when in neither; the text may be empty): it throws
\* when one of them is missing or empty.
parseArgs(cfg) ==
  IF ~Truthy(cfg.apiKey)
  THEN [throws |-> TRUE,
        error |-> <<"API key required: use --api-key <key> or set FELLOW_API_KEY env var">>]
  ELSE IF ~Truthy(cfg.subdomain)
  THEN [throws |-> TRUE,
        error |-> <<"Subdomain required: use --subdomain <subdomain> or set FELLOW_SUBDOMAIN env var">>]
  ELSE [throws |-> FALSE, value |-> [apiKey |-> cfg.apiKey[1], subdomain |-> cfg.subdomain[1]]]

\* new FellowClient(apiKey, subdomain)
FellowClient(apiKey, subdomain) ==
  [apiKey |-> apiKey, baseUrl |-> <<"https://", subdomain, ".fellow.app/api/v1">>]

\* getClient: the cached client, or a new one made from what parseArgs gives;
\* cachedClient is what the variable holds afterwards.
getClient(cached, cfg) ==
  IF cached # None
  THEN [throws |-> FALSE, value |-> cached[1], cachedClient |-> cached]
  ELSE Value({(
           IF parsed.throws
           THEN [throws |-> TRUE, error |-> parsed.error, cachedClient |-> cached]
           ELSE Value({(
                    [throws |-> FALSE, value |-> client, cachedClient |-> Some(client)]
                ) : client \in {FellowClient(parsed.value.apiKey, parsed.value.subdomain)}})
       ) : parsed \in {parseArgs(cfg)}})

-----------------------------------------------------------------------------
(* The CallTool handler: what it returns *)

\* return { content: [{ type: "text", text }] }
TextResult(text) == [isError |-> FALSE, text |-> text]

\* The catch of the handler: return { content: [... `Error: ${errorMessage}`], isError: true }
ErrorResult(errorMessage) == [isError |-> TRUE, text |-> <<"Error: ", errorMessage>>]

\* default: return { content: [... `Unknown tool: ${name}`], isError: true }
UnknownToolResult(name) == [isError |-> TRUE, text |-> <<"Unknown tool: ", name>>]

\* sync_meetings, once the pass has returned the counts res.
SyncMeetingsResult(d, a, res) ==
  TextResult([head |-> "# Sync Complete",
              mode |-> IF a.force = Some(TRUE) THEN "Full" ELSE "Incremental",
              result |-> res,
              stats |-> getStats(d),
              last_sync |-> getLastSyncTime(d)])

\* The filters get_all_action_items passes to getAllActionItems:
\* is_completed: show_completed ? undefined : false
ActionItemFilters(a) ==
  [assignee |-> a.assignee,
   is_completed |-> IF a.show_completed = Some(TRUE) THEN None ELSE Some(FALSE),
   since |-> a.since]

\* The action items of one meeting, as the loop over byMeeting prints them.
MeetingGroup(items, noteId) ==
  LET OfNote(item) == item.note_id = noteId
  IN Value({[note_title |-> group[1].note_title,
             event_start |-> group[1].event_start,
             items |-> [k \in 1..Len(group) |->
                          [is_completed |-> group[k].is_completed # 0,
                           content |-> group[k].content,
                           assignee |-> group[k].assignee,
                           due_date |-> group[k].due_date]]]
              : group \in {SelectSeq(items, OfNote)}})

\* get_all_action_items after its sync: syncError is the message caught (None
\* when the sync did not throw), syncResult the counts returned (None when it threw).
GetAllActionItemsResult(d, a, syncError, syncResult) ==
  Value({(
      IF Len(actionItems) = 0
      THEN TextResult([head |-> "No action items found matching the criteria.",
                       syncError |-> syncError,
                       syncCompleted |->
                         IF syncError = None /\ syncResult # None
                         THEN Some([notes_synced |-> syncResult[1].notes_synced,
                                    action_items_found |-> syncResult[1].action_items_found])
                         ELSE None,
                       stats |-> [notes |-> getStats(d).notes,
                                  action_items |-> getStats(d).action_items]])
      ELSE Value({(
               TextResult([head |-> "# All Action Items",
                           total |-> Len(actionItems),
                           meetings |-> Len(byMeeting),
                           assignee |-> IF Truthy(a.assignee) THEN a.assignee ELSE None,
                           since |-> a.since,
                           showing |-> IF a.show_completed = Some(TRUE)
                                       THEN "all" ELSE "incomplete only",
                           byMeeting |-> [k \in 1..Len(byMeeting) |->
                                            MeetingGroup(actionItems, byMeeting[k])]])
           ) : byMeeting \in {Distinct([k \in 1..Len(actionItems) |-> actionItems[k].note_id])}})
  ) : actionItems \in {getAllActionItems(d, ActionItemFilters(a))}})

\* get_meetings_by_participants
GetMeetingsByParticipantsResult(d, a) ==
  IF a.emails = None \/ Len(a.emails[1]) = 0
  THEN TextResult([head |-> "Please provide at least one email address."])
  ELSE Value({(
           IF Len(meetings) = 0
           THEN TextResult([head |-> "No meetings found with",
                            mode |-> IF a.require_all = Some(TRUE) THEN "all of" ELSE "any of",
                            emails |-> a.emails[1]])
           ELSE TextResult([head |-> "# Meetings with",
                            mode |-> IF a.require_all = Some(TRUE) THEN "all of" ELSE "any of",
                            emails |-> a.emails[1],
                            found |-> Len(meetings),
                            meetings |-> [k \in 1..Len(meetings) |->
                                            [title |-> meetings[k].title,
                                             event_start |-> meetings[k].event_start,
                                             id |-> meetings[k].id,
                                             participants |->
                                               Len(getParticipantsForNote(d, meetings[k].id))]]])
       ) : meetings \in {IF a.require_all = Some(TRUE)
                         THEN getMeetingsWithAllParticipants(d, a.emails[1])
                         ELSE getMeetingsByParticipants(d, a.emails[1])}})

\* The number of characters shown on either side of the match in a snippet.
SnippetContext == 50

\* The snippet search_cached_notes shows for a note: none when the note has no
\* content or the lower-cased content does not hold the lower-cased query.
Snippet(content, query) ==
  IF ~Truthy(content) THEN None
  ELSE Value({(
           IF matchIndex = 0 - 1 THEN None
           ELSE Value({(
                    Some(NewlinesToSpaces(
                           (IF start > 0 THEN <<".", ".", ".">> ELSE <<>>)
                           \o Substring(content[1], start, end)
                           \o (IF end < Len(content[1]) THEN <<".", ".", ".">> ELSE <<>>)))
                ) : start \in {IF matchIndex - SnippetContext > 0
                               THEN matchIndex - SnippetContext ELSE 0},
                    end \in {IF matchIndex + Len(query) + SnippetContext < Len(content[1])
                             THEN matchIndex + Len(query) + SnippetContext
                             ELSE Len(content[1])}})
       ) : matchIndex \in {IndexOf(LowerCase(content[1]), LowerCase(query))}})

\* search_cached_notes
SearchCachedNotesResult(d, a) ==
  IF ~Truthy(a.query) \/ Len(Trim(a.query[1])) = 0
  THEN TextResult([head |-> "Please provide a search query."])
  ELSE Value({(
           IF Len(notes) = 0
           THEN TextResult([head |-> "No meetings found matching", query |-> a.query[1]])
           ELSE TextResult([head |-> "# Search Results for",
                            query |-> a.query[1],
                            found |-> Len(notes),
                            notes |-> [k \in 1..Len(notes) |->
                                         [title |-> notes[k].title,
                                          event_start |-> notes[k].event_start,
                                          id |-> notes[k].id,
                                          snippet |-> Snippet(notes[k].content_markdown,
                                                              a.query[1])]]])
       ) : notes \in {searchNotes(d, a.query[1])}})

\* get_sync_status
GetSyncStatusResult(d) ==
  TextResult([head |-> "# Sync Status",
              last_sync |-> getLastSyncTime(d),
              stats |-> getStats(d)])

\* The tools that look an entity up on the remote ask for one page of 50 and for
\* no more: what client.listNotes({ include_content, include_attendees,
\* page_size: 50 }) gives when its request succeeds.
FirstNotesPage(rem, include_content, include_attendees) ==
  NotesResponse(rem.notes,
                listNotesBody([updated_at_start |-> None,
                               include_content |-> include_content,
                               include_attendees |-> include_attendees,
                               cursor |-> None,
                               page_size |-> 50]))

\* client.listRecordings({ include_transcript, page_size: 50 })
FirstRecordingsPage(rem, include_transcript) ==
  RecordingsResponse(rem.recordings,
                     listRecordingsBody([updated_at_start |-> None,
                                         include_transcript |-> include_transcript,
                                         cursor |-> None,
                                         page_size |-> 50]))

\* data.find((e) => e.id === id) ?? null
Find(data, id) ==
  IF \E k \in 1..Len(data) : data[k].id = id
  THEN Some(data[CHOOSE k \in 1..Len(data) :
                   data[k].id = id /\ \A j \in 1..(k - 1) : data[j].id # id])
  ELSE None

\* get_meeting_transcript with recording_id given or not, and no meeting_title:
\* the recording is looked for on the first page, and once more on the same page.
GetMeetingTranscriptResult(rem, a) ==
  Value({(
      IF found = None
      THEN TextResult([head |-> "Recording not found. Please provide a valid recording_id or meeting_title."])
      ELSE TextResult([head |-> "# Transcript",
                       id |-> found[1].id,
                       transcript |-> found[1].transcript])
  ) : found \in {IF a.recording_id = None THEN None
                 ELSE Coalesce(Find(FirstRecordingsPage(rem, TRUE).data, a.recording_id[1]),
                               Find(FirstRecordingsPage(rem, TRUE).data, a.recording_id[1]))}})

\* get_meeting_summary with note_id or recording_id given or not, and no
\* meeting_title.
GetMeetingSummaryResult(rem, a) ==
  Value({(
      IF noteId = None
      THEN TextResult([head |-> "Note not found. Please provide a valid note_id, recording_id, or meeting_title."])
      ELSE Value({(
               IF note = None
               THEN TextResult([head |-> "Note with ID not found or not accessible.",
                                id |-> noteId[1]])
               ELSE TextResult([head |-> "# Meeting Summary",
                                title |-> note[1].title,
                                id |-> note[1].id,
                                event_start |-> note[1].event_start,
                                content |-> note[1].content_markdown])
           ) : note \in {Find(FirstNotesPage(rem, TRUE, FALSE).data, noteId[1])}})
  ) : noteId \in {IF a.note_id # None THEN a.note_id
                  ELSE IF a.recording_id = None THEN None
                  ELSE Value({(
                           IF recording = None THEN None ELSE recording[1].note_id
                       ) : recording \in {Find(FirstRecordingsPage(rem, FALSE).data,
                                               a.recording_id[1])}})}})

\* get_action_items with note_id given or not, and no meeting_title.
GetActionItemsResult(rem, a) ==
  Value({(
      IF note = None
      THEN TextResult([head |-> "Note not found. Please provide a valid note_id or meeting_title."])
      ELSE TextResult([head |-> "# Action Items",
                       title |-> note[1].title,
                       id |-> note[1].id,
                       event_start |-> note[1].event_start,
                       items |-> IF Truthy(note[1].content_markdown)
                                 THEN extractActionItems(note[1].content_markdown[1])
                                 ELSE <<>>])
  ) : note \in {IF a.note_id = None THEN None
                ELSE Find(FirstNotesPage(rem, TRUE, FALSE).data, a.note_id[1])}})

\* get_meeting_participants with note_id given or not, and no meeting_title.
GetMeetingParticipantsResult(rem, a) ==
  Value({(
      IF note = None
      THEN TextResult([head |-> "Note not found. Please provide a valid note_id or meeting_title."])
      ELSE TextResult([head |-> "# Participants",
                       title |-> note[1].title,
                       id |-> note[1].id,
                       event_start |-> note[1].event_start,
                       attendees |-> Coalesce(note[1].event_attendees, Some(<<>>))[1]])
  ) : note \in {IF a.note_id = None THEN None
                ELSE Find(FirstNotesPage(rem, FALSE, TRUE).data, a.note_id[1])}})

-----------------------------------------------------------------------------
(* The state machine *)

VARIABLES
  remote,      \* what the remote holds: [notes, recordings], each id -> optional entity
  now,         \* the clock: every timestamp taken is later than all earlier ones
  writes,      \* the number of remote changes so far
  calls,       \* the number of tool calls so far
  db,          \* the local store
  pc,          \* where the running tool call stands
  options,     \* syncNotesFromApi: its options argument
  cursor,      \* syncNotesFromApi: let cursor
  request,     \* the body of the list request last issued
  page,        \* the response being processed: [data, cursor]
  idx,         \* the position in page.data of the entity processed next
  result,      \* syncNotesFromApi: const result
  ret,         \* what the last call of syncNotesFromApi gave its caller
  force,       \* the force argument of the last sync_meetings call
  db0,         \* history: the store when the last pass started
  stable,      \* history: the remote has not changed since the last pass started
  pre,         \* history: the store when the first of the passes aborted in a row
               \* before the last pass started (db0 when the pass before was not aborted)
  preStable,   \* history: the remote has not changed since pre was taken
  aborted,     \* history: the options of the passes aborted since pre
  config,      \* process.argv and process.env: [apiKey, subdomain], each optional; [test]
  server,      \* main: "starting", "connected" (tools can be called) or "exited"
  cachedClient,\* let cachedClient: the FellowClient, once getClient has made it
  tool,        \* request.params.name of the tool call in progress, or of the last one
  args,        \* request.params.arguments of that call
  response,    \* what the CallTool handler gave for that call (None while it runs)
  fetches,     \* the number of calls of fetch made by the last client call of the tool call
  reply,       \* the HTTP response to the last fetch of the tool call, once it has come
  thrown,      \* the Error a client call of the tool call has thrown, if one did
  other        \* a second tool call of the process, if there is one: what this list
               \* holds from pc to thrown, for the call that is not running

passVars == <<pc, options, cursor, request, page, idx, result, ret, force>>

histVars == <<db0, stable, pre, preStable, aborted>>

srvVars == <<config, server, cachedClient, tool, args, response, other>>

httpVars == <<fetches, reply, thrown>>

vars == <<remote, now, writes, calls, db, passVars, histVars, srvVars, httpVars>>

NoPage == [data |-> <<>>, cursor |-> None]

\* request.params.arguments of a call without arguments
NoArgs == <<>>

\* The handler has returned the result res.
Returns(res) == Some([returns |-> Some(res), throws |-> None])

\* The handler has thrown the error err: its promise is rejected.
Throws(err) == Some([returns |-> None, throws |-> Some(err)])

NoRequest ==
  [endpoint |-> "", updated_at_start |-> None, include |-> {}, cursor |-> None, page_size |-> 0]

\* The remote already holds a note and two recordings, one of them of a note the
\* remote does not (yet) list. The store is empty and never synced, or it is what
\* one forced sync without transcripts has left.
Init ==
  /\ remote =
       [notes |-> [n \in NoteIds |->
                     IF n = "n1"
                     THEN Some([title |-> FirstNote.title,
                                updated_at |-> 1,
                                event_start |-> FirstNote.event_start,
                                content_markdown |-> FirstNote.content_markdown,
                                event_attendees |-> FirstNote.event_attendees])
                     ELSE None],
        recordings |-> [r \in RecordingIds |->
                     Some([updated_at |-> 1,
                           note_id |-> FirstRecordings[r].note_id,
                           transcript |-> FirstRecordings[r].transcript])]]
  /\ writes = 0
  /\ calls = 0
  /\ \/ now = 1 /\ db = EmptyDb
     \/ now = 2 /\ db = syncNotesFromApi(EmptyDb, remote, ForcedOptions(None), 2).db
  /\ pc = "idle"
  /\ options = [since |-> None, includeTranscripts |-> None]
  /\ cursor = None
  /\ request = NoRequest
  /\ page = NoPage
  /\ idx = 1
  /\ result = ZeroResult
  /\ ret = None
  /\ force = FALSE
  /\ db0 = db
  /\ stable = TRUE
  /\ pre = db
  /\ preStable = TRUE
  /\ aborted = {}
  /\ config = [apiKey |-> Some(<<"k">>), subdomain |-> Some(<<"w">>), test |-> FALSE]
  /\ server = "connected"
  /\ cachedClient = None
  /\ tool = ""
  /\ args = NoArgs
  /\ response = None
  /\ fetches = 0
  /\ reply = None
  /\ thrown = None
  /\ other = None

\* The remote can change whenever the server is not inside a synchronous stretch
\* of code that has begun to process a page: between two tool calls, while a
\* request is outstanding, and before the response that has arrived is processed.
RemoteMayChange == pc \in {"idle", "done", "failed", "listNotes", "listRecordings"} \/ idx = 1

\* The remote creates or updates a note.
RemoteWriteNote(n, v) ==
  /\ RemoteMayChange
  /\ writes < MaxRemoteWrites
  /\ writes' = writes + 1
  /\ now' = now + 1
  /\ remote' = [remote EXCEPT !.notes[n] =
                  Some([title |-> v.title,
                        updated_at |-> now + 1,
                        event_start |-> v.event_start,
                        content_markdown |-> v.content_markdown,
                        event_attendees |-> v.event_attendees])]
  /\ stable' = FALSE
  /\ preStable' = FALSE
  /\ UNCHANGED <<calls, db, passVars, db0, pre, aborted, srvVars, httpVars>>

\* The remote creates or updates a recording.
RemoteWriteRecording(r, v) ==
  /\ RemoteMayChange
  /\ writes < MaxRemoteWrites
  /\ writes' = writes + 1
  /\ now' = now + 1
  /\ remote' = [remote EXCEPT !.recordings[r] =
                  Some([updated_at |-> now + 1,
                        note_id |-> v.note_id,
                        transcript |-> v.transcript])]
  /\ stable' = FALSE
  /\ preStable' = FALSE
  /\ UNCHANGED <<calls, db, passVars, db0, pre, aborted, srvVars, httpVars>>

\* A tool is called, with the name and the arguments given: the server is
\* connected and no other call is running.
StartCall(name, a) ==
  /\ server = "connected"
  /\ pc \in {"idle", "done", "failed"}
  /\ calls < MaxCalls
  /\ calls' = calls + 1
  /\ tool' = name
  /\ args' = a
  /\ UNCHANGED <<config, server, other>>

\* const client = getClient() gives the client.
HasClient ==
  \E gc \in {getClient(cachedClient, config)} :
    ~gc.throws /\ cachedClient' = gc.cachedClient

\* The call begins without a call of the client.
NoClientCall ==
  /\ fetches' = 0
  /\ reply' = None
  /\ thrown' = None

\* The sync_meetings tool is called: syncNotesFromApi starts, with the options of
\* a forced or of an incremental sync, and issues its first request for notes.
CallSyncMeetings(force_, include_transcripts) ==
  /\ StartCall("sync_meetings",
               [force |-> IF force_ THEN Some(TRUE) ELSE None,
                include_transcripts |-> include_transcripts])
  /\ HasClient
  /\ response' = None
  /\ fetches' = 1
  /\ reply' = None
  /\ thrown' = None
  /\ options' = IF force_ THEN ForcedOptions(include_transcripts)
                ELSE IncrementalOptions(getLastSyncTime(db))
  /\ result' = ZeroResult
  /\ cursor' = None
  /\ request' = NotesRequest(options', None)
  /\ pc' = "listNotes"
  /\ ret' = None
  /\ force' = force_
  /\ db0' = db
  /\ stable' = TRUE
  /\ IF pc = "failed"
     THEN UNCHANGED <<pre, preStable, aborted>>
     ELSE pre' = db /\ preStable' = TRUE /\ aborted' = {}
  /\ UNCHANGED <<remote, now, writes, db, page, idx>>

\* The get_all_action_items tool is called: performIncrementalSync starts
\* syncNotesFromApi, which issues its first request for notes.
CallGetAllActionItems(assignee, show_completed, since) ==
  /\ StartCall("get_all_action_items",
               [assignee |-> assignee, show_completed |-> show_completed, since |-> since])
  /\ HasClient
  /\ response' = None
  /\ fetches' = 1
  /\ reply' = None
  /\ thrown' = None
  /\ options' = IncrementalOptions(getLastSyncTime(db))
  /\ result' = ZeroResult
  /\ cursor' = None
  /\ request' = NotesRequest(options', None)
  /\ pc' = "listNotes"
  /\ ret' = None
  /\ force' = FALSE
  /\ db0' = db
  /\ stable' = TRUE
  /\ IF pc = "failed"
     THEN UNCHANGED <<pre, preStable, aborted>>
     ELSE pre' = db /\ preStable' = TRUE /\ aborted' = {}
  /\ UNCHANGED <<remote, now, writes, db, page, idx>>

\* RequestFails with the error caught inside the loop: the pass goes on as if an
\* empty page had come.
RequestFails_SkipsPage ==
  /\ pc \in {"listNotes", "listRecordings"}
  /\ pc' = IF pc = "listNotes" THEN "notes" ELSE "recordings"
  /\ page' = [data |-> <<>>, cursor |-> None]
  /\ idx' = 1
  /\ UNCHANGED <<remote, now, writes, calls, db, options, cursor, request,
                 result, ret, force, histVars, srvVars, httpVars>>

\* RequestFails with the error swallowed: the pass ends as if the last page had
\* been reached, writes the watermark and returns the counts so far.
RequestFails_ReturnsPartial ==
  /\ pc \in {"listNotes", "listRecordings"}
  /\ pc' = "done"
  /\ now' = now + 1
  /\ db' = [db EXCEPT !.last_sync = Some(now + 1)]
  /\ ret' = Some([isError |-> FALSE, result |-> Some(result)])
  /\ UNCHANGED <<remote, writes, calls, options, cursor, request, page, idx,
                 result, force, histVars, srvVars, httpVars>>

\* RequestFails with a retry: after a response that is not ok the client calls
\* fetch once more for the same request instead of throwing.
RequestFails_Retries ==
  /\ pc \in {"listNotes", "listRecordings"}
  /\ fetches < 2
  /\ fetches' = fetches + 1
  /\ \E r \in HttpErrors : reply' = Some(r)
  /\ UNCHANGED <<remote, now, writes, calls, db, passVars, histVars, srvVars, thrown>>

\* FellowClient.request: the response is not ok, the error propagates out of
\* syncNotesFromApi to the handler of the tool: get_all_action_items catches it
\* and goes on to read the store, sync_meetings returns it as an error result.
RequestFails ==
  /\ pc \in {"listNotes", "listRecordings"}
  /\ pc' = "failed"
  /\ ret' = Some([isError |-> TRUE, result |-> None])
  /\ aborted' = aborted \cup {options}
  /\ \E r \in HttpErrors :
       \E out \in {FellowClient_request(r, NoPage)} :
         /\ reply' = Some(r)
         /\ thrown' = Some(out.error)
         /\ response' = Returns(IF tool = "get_all_action_items"
                                THEN GetAllActionItemsResult(db, args, Some(out.error), None)
                                ELSE ErrorResult(out.error))
  /\ UNCHANGED <<remote, now, writes, calls, db, options, cursor, request, page, idx,
                 result, force, db0, stable, pre, preStable>>
  /\ UNCHANGED <<config, server, cachedClient, tool, args, fetches, other>>

\* const notesResp = await client.listNotes(...)
NotesPageArrives ==
  /\ pc = "listNotes"
  /\ page' = FellowClient_request(OkReply, NotesResponse(remote.notes, request)).value
  /\ idx' = 1
  /\ pc' = "notes"
  /\ reply' = Some(OkReply)
  /\ UNCHANGED <<remote, now, writes, calls, db, options, cursor, request, result, ret,
                 force, histVars, srvVars, fetches, thrown>>

\* SyncNoteStep with an await between the clearing and the insertion: the turn of
\* the loop upserts the note and deletes its action items and participants,
\* awaits (reply is None while it does), and then inserts them.
SyncNoteStep_AwaitsAfterClear ==
  /\ pc = "notes"
  /\ idx <= Len(page.data)
  /\ \E st \in {SyncNote(db, result, page.data[idx])} :
       IF reply # None
       THEN /\ db' = clearParticipantsForNote(
                       clearActionItemsForNote(st.db, page.data[idx].id), page.data[idx].id)
            /\ reply' = None
            /\ UNCHANGED <<idx, result>>
       ELSE /\ db' = st.db
            /\ result' = st.result
            /\ idx' = idx + 1
            /\ reply' = Some(OkReply)
  /\ UNCHANGED <<remote, now, writes, calls, pc, options, cursor, request, page, ret,
                 force, histVars, srvVars, fetches, thrown>>

\* One turn of for (const note of notesResp.notes.data).
SyncNoteStep ==
  /\ pc = "notes"
  /\ idx <= Len(page.data)
  /\ \E st \in {SyncNote(db, result, page.data[idx])} :
       db' = st.db /\ result' = st.result
  /\ idx' = idx + 1
  /\ UNCHANGED <<remote, now, writes, calls, pc, options, cursor, request, page, ret,
                 force, histVars, srvVars, httpVars>>

\* NextNotesPage without waiting for the loop over the page: the next page is
\* requested as soon as the page has come.
NextNotesPage_Early ==
  /\ pc = "notes"
  /\ page.cursor # None
  /\ cursor' = page.cursor
  /\ request' = NotesRequest(options, cursor')
  /\ pc' = "listNotes"
  /\ fetches' = 1
  /\ reply' = None
  /\ UNCHANGED <<remote, now, writes, calls, db, options, page, idx, result, ret, force,
                 histVars, srvVars, thrown>>

\* cursor = notesResp.notes.page_info.cursor; while (cursor): the next page of notes.
NextNotesPage ==
  /\ pc = "notes"
  /\ idx > Len(page.data)
  /\ page.cursor # None
  /\ cursor' = page.cursor
  /\ request' = NotesRequest(options, cursor')
  /\ pc' = "listNotes"
  /\ fetches' = 1
  /\ reply' = None
  /\ UNCHANGED <<remote, now, writes, calls, db, options, page, idx, result, ret, force,
                 histVars, srvVars, thrown>>

\* NotesDone with a bound of one page on the loop over the pages of notes: the
\* loop ends after the first page, whatever its cursor.
NotesDone_OnePage ==
  /\ pc = "notes"
  /\ idx > Len(page.data)
  /\ cursor' = None
  /\ request' = RecordingsRequest(options, cursor')
  /\ pc' = "listRecordings"
  /\ fetches' = 1
  /\ reply' = None
  /\ UNCHANGED <<remote, now, writes, calls, db, options, page, idx, result, ret, force,
                 histVars, srvVars, thrown>>

\* The loop over the notes ends; cursor = null; the first request for recordings.
NotesDone ==
  /\ pc = "notes"
  /\ idx > Len(page.data)
  /\ page.cursor = None
  /\ cursor' = None
  /\ request' = RecordingsRequest(options, cursor')
  /\ pc' = "listRecordings"
  /\ fetches' = 1
  /\ reply' = None
  /\ UNCHANGED <<remote, now, writes, calls, db, options, page, idx, result, ret, force,
                 histVars, srvVars, thrown>>

\* const recordingsResp = await client.listRecordings(...)
RecordingsPageArrives ==
  /\ pc = "listRecordings"
  /\ page' = FellowClient_request(OkReply, RecordingsResponse(remote.recordings, request)).value
  /\ idx' = 1
  /\ pc' = "recordings"
  /\ reply' = Some(OkReply)
  /\ UNCHANGED <<remote, now, writes, calls, db, options, cursor, request, result, ret,
                 force, histVars, srvVars, fetches, thrown>>

\* One turn of for (const recording of recordingsResp.recordings.data).
SyncRecordingStep ==
  /\ pc = "recordings"
  /\ idx <= Len(page.data)
  /\ \E st \in {SyncRecording(db, result, page.data[idx])} :
       db' = st.db /\ result' = st.result
  /\ idx' = idx + 1
  /\ UNCHANGED <<remote, now, writes, calls, pc, options, cursor, request, page, ret,
                 force, histVars, srvVars, httpVars>>

\* cursor = recordingsResp.recordings.page_info.cursor; while (cursor)
NextRecordingsPage ==
  /\ pc = "recordings"
  /\ idx > Len(page.data)
  /\ page.cursor # None
  /\ cursor' = page.cursor
  /\ request' = RecordingsRequest(options, cursor')
  /\ pc' = "listRecordings"
  /\ fetches' = 1
  /\ reply' = None
  /\ UNCHANGED <<remote, now, writes, calls, db, options, page, idx, result, ret, force,
                 histVars, srvVars, thrown>>

\* db.setLastSyncTime(new Date().toISOString()); return result
FinishSync ==
  /\ pc = "recordings"
  /\ idx > Len(page.data)
  /\ page.cursor = None
  /\ cursor' = None
  /\ now' = now + 1
  /\ db' = setLastSyncTime(db, now + 1)
  /\ ret' = Some([isError |-> FALSE, result |-> Some(result)])
  /\ pc' = "done"
  /\ response' = Returns(IF tool = "get_all_action_items"
                         THEN GetAllActionItemsResult(db', args, None, Some(result))
                         ELSE SyncMeetingsResult(db', args, result))
  /\ UNCHANGED <<remote, writes, calls, options, request, page, idx, result, force, histVars>>
  /\ UNCHANGED <<config, server, cachedClient, tool, args, httpVars, other>>

Next ==
  \/ \E n \in NoteIds, v \in NoteVersions : RemoteWriteNote(n, v)
  \/ \E r \in RecordingIds, v \in RecordingVersions : RemoteWriteRecording(r, v)
  \/ \E force_ \in BOOLEAN, include_transcripts \in {None, Some(TRUE)} :
       CallSyncMeetings(force_, include_transcripts)
  \/ RequestFails
  \/ NotesPageArrives
  \/ SyncNoteStep
  \/ NextNotesPage
  \/ NotesDone
  \/ RecordingsPageArrives
  \/ SyncRecordingStep
  \/ NextRecordingsPage
  \/ FinishSync

Spec == Init /\ [][Next]_vars

-----------------------------------------------------------------------------
(* The server from its start: main, and the tools that read the store *)

\* 52 dots and "Due": a content longer than the context a snippet shows.
LongContent == [k \in 1..52 |-> "."] \o <<"D", "u", "e">>

EmailC == <<"c", "@", "x">>

\* What the remote may hold when the server starts: two notes with the contents
\* and attendees of FirstNote and of NoteVersions, or one note with a long content.
ServerRemotes ==
  { [notes |-> [n \in NoteIds |->
                  IF n = "n1"
                  THEN Some([title |-> FirstNote.title, updated_at |-> 1,
                             event_start |-> FirstNote.event_start,
                             content_markdown |-> FirstNote.content_markdown,
                             event_attendees |-> FirstNote.event_attendees])
                  ELSE Some([title |-> TitleB, updated_at |-> 1,
                             event_start |-> Some(3),
                             content_markdown |-> Some(ContentB),
                             event_attendees |-> Some(<<<<" ">> \o EmailB, EmailB>>)])],
     recordings |-> [r \in RecordingIds |->
                       Some([updated_at |-> 1,
                             note_id |-> FirstRecordings[r].note_id,
                             transcript |-> FirstRecordings[r].transcript])]],
    [notes |-> [n \in NoteIds |->
                  IF n = "n1"
                  THEN Some([title |-> TitleA, updated_at |-> 1,
                             event_start |-> None,
                             content_markdown |-> Some(LongContent),
                             event_attendees |-> Some(<<EmailA>>)])
                  ELSE None],
     recordings |-> [r \in RecordingIds |-> None]] }

\* process.argv and process.env: the API key and the subdomain, each given, given
\* as an empty text, or not given; and whether --test is among the arguments.
Configs ==
  [apiKey : {None, Some(<<>>), Some(<<"k">>)},
   subdomain : {None, Some(<<"w">>)},
   test : BOOLEAN]

\* The names a tool call may carry.
ToolNames ==
  {"sync_meetings", "get_all_action_items", "get_meetings_by_participants",
   "search_cached_notes", "get_sync_status", "no_such_tool"}

\* The tools that call getDatabase.
StoreTools == ToolNames \ {"no_such_tool"}

\* The arguments tried for get_all_action_items.
ActionItemArgs ==
  [assignee : {None, Some(<<"a", "l">>), Some(<<"z">>)},
   show_completed : {None, Some(TRUE)},
   since : {None, Some(2)}]

\* The email lists tried for get_meetings_by_participants: absent, empty, one
\* email, two emails (also the same email twice).
EmailLists ==
  {None, Some(<<>>)}
    \cup {Some(<<e>>) : e \in {EmailA, EmailB, EmailC}}
    \cup {Some(<<e, f>>) : e \in {EmailA, EmailB}, f \in {EmailA, EmailB, EmailC}}

\* The queries tried for search_cached_notes: absent, empty, blank, "b", "AB",
\* "a_", "%", "due", "b\n*", "z".
Queries ==
  {None, Some(<<>>), Some(<<" ">>), Some(<<"b">>), Some(<<"A", "B">>), Some(<<"a", "_">>),
   Some(<<"%">>), Some(<<"d", "u", "e">>), Some(<<"b", "\n", "*">>), Some(<<"z">>)}

\* The process starts: the remote holds one of ServerRemotes and does not change;
\* the store is empty and never synced, or what a forced sync of the remote has left.
ServerInit ==
  /\ remote \in ServerRemotes
  /\ writes = 0
  /\ calls = 0
  /\ \/ now = 1 /\ db = EmptyDb
     \/ now = 2 /\ db = syncNotesFromApi(EmptyDb, remote, ForcedOptions(None), 2).db
  /\ pc = "idle"
  /\ options = [since |-> None, includeTranscripts |-> None]
  /\ cursor = None
  /\ request = NoRequest
  /\ page = NoPage
  /\ idx = 1
  /\ result = ZeroResult
  /\ ret = None
  /\ force = FALSE
  /\ db0 = db
  /\ stable = TRUE
  /\ pre = db
  /\ preStable = TRUE
  /\ aborted = {}
  /\ config \in Configs
  /\ server = "starting"
  /\ cachedClient = None
  /\ tool = ""
  /\ args = NoArgs
  /\ response = None
  /\ fetches = 0
  /\ reply = None
  /\ thrown = None
  /\ other = None

\* main without --test: await server.connect(transport). Neither parseArgs nor
\* getClient is called.
Main ==
  /\ server = "starting"
  /\ ~config.test
  /\ server' = "connected"
  /\ UNCHANGED <<remote, now, writes, calls, db, passVars, histVars, httpVars,
                 config, cachedClient, tool, args, response, other>>

\* main with --test: await runTest(); return. No transport is connected (what
\* runTest prints is not modelled).
RunTest ==
  /\ server = "starting"
  /\ config.test
  /\ server' = "exited"
  /\ UNCHANGED <<remote, now, writes, calls, db, passVars, histVars, httpVars,
                 config, cachedClient, tool, args, response, other>>

\* A tool is called and const client = getClient(), the statement before the try
\* of the handler, throws what parseArgs throws.
CallToolWithoutClient(name) ==
  /\ StartCall(name, NoArgs)
  /\ \E gc \in {getClient(cachedClient, config)} :
       /\ gc.throws
       /\ cachedClient' = gc.cachedClient
       /\ response' = Throws(gc.error)
  /\ NoClientCall
  /\ UNCHANGED <<remote, now, writes, db, passVars, histVars>>

\* A tool is called and getDatabase(), inside the try of the handler, throws (the
\* file of the store cannot be opened): the catch returns the error.
CallToolStoreFails(name) ==
  /\ StartCall(name, NoArgs)
  /\ HasClient
  /\ response' = Returns(ErrorResult(<<"unable to open database file">>))
  /\ NoClientCall
  /\ UNCHANGED <<remote, now, writes, db, passVars, histVars>>

\* The get_meetings_by_participants tool is called.
CallGetMeetingsByParticipants(emails, require_all) ==
  /\ StartCall("get_meetings_by_participants", [emails |-> emails, require_all |-> require_all])
  /\ HasClient
  /\ response' = Returns(GetMeetingsByParticipantsResult(db, args'))
  /\ NoClientCall
  /\ UNCHANGED <<remote, now, writes, db, passVars, histVars>>

\* The search_cached_notes tool is called.
CallSearchCachedNotes(query) ==
  /\ StartCall("search_cached_notes", [query |-> query])
  /\ HasClient
  /\ response' = Returns(SearchCachedNotesResult(db, args'))
  /\ NoClientCall
  /\ UNCHANGED <<remote, now, writes, db, passVars, histVars>>

\* The get_sync_status tool is called.
CallGetSyncStatus ==
  /\ StartCall("get_sync_status", NoArgs)
  /\ HasClient
  /\ response' = Returns(GetSyncStatusResult(db))
  /\ NoClientCall
  /\ UNCHANGED <<remote, now, writes, db, passVars, histVars>>

\* A tool of a name the switch has no case for is called.
CallUnknownTool ==
  /\ StartCall("no_such_tool", NoArgs)
  /\ HasClient
  /\ response' = Returns(UnknownToolResult(tool'))
  /\ NoClientCall
  /\ UNCHANGED <<remote, now, writes, db, passVars, histVars>>

ServerNext ==
  \/ Main
  \/ RunTest
  \/ \E name \in ToolNames : CallToolWithoutClient(name)
  \/ \E name \in StoreTools : CallToolStoreFails(name)
  \/ \E force_ \in BOOLEAN, include_transcripts \in {None, Some(TRUE)} :
       CallSyncMeetings(force_, include_transcripts)
  \/ \E a \in ActionItemArgs : CallGetAllActionItems(a.assignee, a.show_completed, a.since)
  \/ \E emails \in EmailLists, require_all \in {None, Some(TRUE)} :
       CallGetMeetingsByParticipants(emails, require_all)
  \/ \E query \in Queries : CallSearchCachedNotes(query)
  \/ CallGetSyncStatus
  \/ CallUnknownTool
  \/ RequestFails
  \/ NotesPageArrives
  \/ SyncNoteStep
  \/ NextNotesPage
  \/ NotesDone
  \/ RecordingsPageArrives
  \/ SyncRecordingStep
  \/ NextRecordingsPage
  \/ FinishSync

ServerSpec == ServerInit /\ [][ServerNext]_vars

-----------------------------------------------------------------------------
(* The extractor on its own: texts that are synced once from an empty store *)

\* Lines of a note: lines of each of the three families (check box, label,
\* mention), and lines of none.
ExtractLines ==
  << <<"-", " ", "[", "x", "]", " ", "a">>,
     <<"*", " ", "[", " ", "]", " ", "T", "O", "D", "O", ":", " ", "b">>,
     <<"-", "[", "X", "]", "c">>,
     <<"T", "O", "D", "O", ":", " ", "d">>,
     <<"-", " ", "a", "c", "t", "i", "o", "n", " ", "i", "t", "e", "m", ":", " ", "e">>,
     <<"T", "o", " ", "D", "o", ":", "f">>,
     <<"-", " ", "@", "a", "l", ":", " ", "g">>,
     <<"*", " ", "@", "a", "l", " ", "b", " ", "-", " ", "h">>,
     <<"n", "o", "t", "e">>,
     <<>>,
     <<"-", " ", "[", "x", "]">>,
     <<" ", " ", "-", " ", "[", " ", "]", " ", " ", "i", " ">>,
     <<"[", "x", "]", " ", "j">>,
     <<"-", " ", "T", "O", "D", "O", " ", "k">> >>

\* Contents of action items: with a date after due, by or deadline in the ISO
\* form, in the US form, in both, in neither, and with dates that fit no form.
DueTexts ==
  << <<"b", "y", " ", "3", "/", "5", "/", "2", "4">>,
     <<"d", "u", "e", " ", "2", "0", "2", "4", "-", "0", "1", "-", "1", "5">>,
     <<"d", "u", "e", " ", "1", "/", "2", "/", "2", "4", " ", "b", "y", " ", "2", "0", "2", "4", "-", "0", "3", "-", "0", "4">>,
     <<"b", "y", " ", "2", "0", "2", "4", "-", "0", "3", "-", "0", "4", " ", "d", "u", "e", " ", "1", "/", "2", "/", "2", "4">>,
     <<"D", "e", "a", "d", "l", "i", "n", "e", ":", " ", "1", "2", "/", "3", "1", "/", "2", "0", "2", "4">>,
     <<"b", "y", " ", "1", "/", "2", "/", "1", "2", "3">>,
     <<"b", "y", " ", "1", "/", "2", "/", "3">>,
     <<"b", "y", " ", "1", "2", "3", "/", "1", "/", "2", "4">>,
     <<"b", "y", " ", "1", "/", "2", "/", "2", "4", "5", "6", "7">>,
     <<"d", "u", "e", ":", " ", "2", "0", "2", "4", "-", "1", "-", "5">>,
     <<"b", "y", " ", "f", "r", "i", "d", "a", "y">>,
     <<"2", "0", "2", "4", "-", "0", "1", "-", "1", "5">>,
     <<"b", "y", " ", "1", "3", "/", "4", "5", "/", "2", "0", "2", "4">>,
     <<"@", "b", "o", " ", "b", "y", " ", "3", "/", "5", "/", "2", "4">>,
     <<"d", "u", "e", " ", "2", "0", "2", "4", "-", "0", "1", "-", "1", "5", "x">>,
     <<"s", "t", "a", "n", "d", "b", "y", " ", "1", "1", "/", "5", "/", "2", "4">> >>
\* The prefixes that make a line of each family of a content of DueTexts.
FamilyPrefixes ==
  << <<"-", " ", "[", " ", "]", " ">>,
     <<"T", "O", "D", "O", ":", " ">>,
     <<"-", " ", "@", "a", "l", ":", " ">> >>

\* The contents the note of the remote may have: one line, two lines, and one
\* line of each family for each of DueTexts.
ExtractTexts ==
  {ExtractLines[i] : i \in 1..Len(ExtractLines)}
    \cup {ExtractLines[i] \o <<"\n">> \o ExtractLines[j] :
            i \in 1..Len(ExtractLines), j \in 1..Len(ExtractLines)}
    \cup {FamilyPrefixes[f] \o DueTexts[t] : f \in 1..Len(FamilyPrefixes), t \in 1..Len(DueTexts)}

\* The process is connected; the remote holds one note, with a content of
\* ExtractTexts, and no recording, and does not change; the store is empty.
ExtractInit ==
  /\ \E c \in ExtractTexts :
       remote =
         [notes |-> [n \in NoteIds |->
                       IF n = "n1"
                       THEN Some([title |-> TitleA, updated_at |-> 1,
                                  event_start |-> None,
                                  content_markdown |-> Some(c),
                                  event_attendees |-> None])
                       ELSE None],
          recordings |-> [r \in RecordingIds |-> None]]
  /\ writes = 0
  /\ calls = 0
  /\ now = 1
  /\ db = EmptyDb
  /\ pc = "idle"
  /\ options = [since |-> None, includeTranscripts |-> None]
  /\ cursor = None
  /\ request = NoRequest
  /\ page = NoPage
  /\ idx = 1
  /\ result = ZeroResult
  /\ ret = None
  /\ force = FALSE
  /\ db0 = db
  /\ stable = TRUE
  /\ pre = db
  /\ preStable = TRUE
  /\ aborted = {}
  /\ config = [apiKey |-> Some(<<"k">>), subdomain |-> Some(<<"w">>), test |-> FALSE]
  /\ server = "connected"
  /\ cachedClient = None
  /\ tool = ""
  /\ args = NoArgs
  /\ response = None
  /\ fetches = 0
  /\ reply = None
  /\ thrown = None
  /\ other = None

\* A forced sync_meetings, none of whose requests fails.
ExtractNext ==
  \/ CallSyncMeetings(TRUE, None)
  \/ NotesPageArrives
  \/ SyncNoteStep
  \/ NotesDone
  \/ RecordingsPageArrives
  \/ FinishSync

ExtractSpec == ExtractInit /\ [][ExtractNext]_vars

-----------------------------------------------------------------------------
(* Full syncs whose calls do not fail, against a remote that may go on paging *)

\* The process is connected; the remote holds one of ServerRemotes and does not
\* change; the store is empty and never synced, or what a forced sync has left.
FullSyncInit ==
  /\ remote \in ServerRemotes
  /\ writes = 0
  /\ calls = 0
  /\ \/ now = 1 /\ db = EmptyDb
     \/ now = 2 /\ db = syncNotesFromApi(EmptyDb, remote, ForcedOptions(None), 2).db
  /\ pc = "idle"
  /\ options = [since |-> None, includeTranscripts |-> None]
  /\ cursor = None
  /\ request = NoRequest
  /\ page = NoPage
  /\ idx = 1
  /\ result = ZeroResult
  /\ ret = None
  /\ force = FALSE
  /\ db0 = db
  /\ stable = TRUE
  /\ pre = db
  /\ preStable = TRUE
  /\ aborted = {}
  /\ config = [apiKey |-> Some(<<"k">>), subdomain |-> Some(<<"w">>), test |-> FALSE]
  /\ server = "connected"
  /\ cachedClient = None
  /\ tool = ""
  /\ args = NoArgs
  /\ response = None
  /\ fetches = 0
  /\ reply = None
  /\ thrown = None
  /\ other = None

\* The page of a remote that goes on paging: no entity, and a cursor that stands
\* for the offset the request asked from, so that the next request asks the same.
PageWithoutEnd == [data |-> <<>>, cursor |-> Some(Coalesce(request.cursor, Some(0))[1])]

\* await client.listNotes(...) gives a page with a cursor and without notes.
NotesPageWithoutEnd ==
  /\ pc = "listNotes"
  /\ page' = FellowClient_request(OkReply, PageWithoutEnd).value
  /\ idx' = 1
  /\ pc' = "notes"
  /\ reply' = Some(OkReply)
  /\ UNCHANGED <<remote, now, writes, calls, db, options, cursor, request, result, ret,
                 force, histVars, srvVars, fetches, thrown>>

\* await client.listRecordings(...) gives a page with a cursor and without recordings.
RecordingsPageWithoutEnd ==
  /\ pc = "listRecordings"
  /\ page' = FellowClient_request(OkReply, PageWithoutEnd).value
  /\ idx' = 1
  /\ pc' = "recordings"
  /\ reply' = Some(OkReply)
  /\ UNCHANGED <<remote, now, writes, calls, db, options, cursor, request, result, ret,
                 force, histVars, srvVars, fetches, thrown>>

\* A step of the running pass: a response comes, or the code that awaited it runs on.
PassStep ==
  \/ NotesPageArrives
  \/ NotesPageWithoutEnd
  \/ SyncNoteStep
  \/ NextNotesPage
  \/ NotesDone
  \/ RecordingsPageArrives
  \/ RecordingsPageWithoutEnd
  \/ SyncRecordingStep
  \/ NextRecordingsPage
  \/ FinishSync

FullSyncNext ==
  \/ \E include_transcripts \in {None, Some(TRUE)} : CallSyncMeetings(TRUE, include_transcripts)
  \/ NotesPageArrives
  \/ NotesPageWithoutEnd
  \/ SyncNoteStep
  \/ NextNotesPage
  \/ NotesDone
  \/ RecordingsPageArrives
  \/ RecordingsPageWithoutEnd
  \/ SyncRecordingStep
  \/ NextRecordingsPage
  \/ FinishSync

\* Every request is answered, and the code awaiting a response runs on when the
\* response has come: a pass that can take a step takes one.
FullSyncSpec == FullSyncInit /\ [][FullSyncNext]_vars /\ WF_vars(PassStep)

-----------------------------------------------------------------------------
(* The tools that look an entity up on the remote by its identifier *)

\* The tools of LookupSpec.
LookupTools ==
  {"get_meeting_transcript", "get_meeting_summary", "get_action_items",
   "get_meeting_participants"}

\* A lookup tool has been called: the handler asks the remote when asked is true,
\* and the response r comes to its first request. When r is not ok the client
\* throws and the catch of the handler returns the error; else the handler
\* returns res.
LookupReturns(asked, r, res) ==
  IF ~asked
  THEN response' = Returns(res) /\ NoClientCall
  ELSE /\ fetches' = 1
       /\ reply' = Some(r)
       /\ \E out \in {FellowClient_request(r, NoPage)} :
            IF out.throws
            THEN thrown' = Some(out.error) /\ response' = Returns(ErrorResult(out.error))
            ELSE thrown' = None /\ response' = Returns(res)

\* The get_meeting_transcript tool is called.
CallGetMeetingTranscript(recording_id) ==
  /\ StartCall("get_meeting_transcript", [recording_id |-> recording_id])
  /\ HasClient
  /\ \E r \in {OkReply} \cup HttpErrors :
       LookupReturns(recording_id # None, r, GetMeetingTranscriptResult(remote, args'))
  /\ UNCHANGED <<remote, now, writes, db, passVars, histVars>>

\* The get_meeting_summary tool is called.
CallGetMeetingSummary(note_id, recording_id) ==
  /\ StartCall("get_meeting_summary", [note_id |-> note_id, recording_id |-> recording_id])
  /\ HasClient
  /\ \E r \in {OkReply} \cup HttpErrors :
       LookupReturns(note_id # None \/ recording_id # None, r,
                     GetMeetingSummaryResult(remote, args'))
  /\ UNCHANGED <<remote, now, writes, db, passVars, histVars>>

\* The get_action_items tool is called.
CallGetActionItems(note_id) ==
  /\ StartCall("get_action_items", [note_id |-> note_id])
  /\ HasClient
  /\ \E r \in {OkReply} \cup HttpErrors :
       LookupReturns(note_id # None, r, GetActionItemsResult(remote, args'))
  /\ UNCHANGED <<remote, now, writes, db, passVars, histVars>>

\* The get_meeting_participants tool is called.
CallGetMeetingParticipants(note_id) ==
  /\ StartCall("get_meeting_participants", [note_id |-> note_id])
  /\ HasClient
  /\ \E r \in {OkReply} \cup HttpErrors :
       LookupReturns(note_id # None, r, GetMeetingParticipantsResult(remote, args'))
  /\ UNCHANGED <<remote, now, writes, db, passVars, histVars>>

\* The identifiers tried: none, and each identifier an entity may have (in one of
\* ServerRemotes the remote holds no entity of the identifiers n2, r1 and r2).
LookupNext ==
  \/ \E recording_id \in {None} \cup {Some(r) : r \in RecordingIds} :
       CallGetMeetingTranscript(recording_id)
  \/ \E note_id \in {None} \cup {Some(n) : n \in NoteIds},
        recording_id \in {None} \cup {Some(r) : r \in RecordingIds} :
       CallGetMeetingSummary(note_id, recording_id)
  \/ \E note_id \in {None} \cup {Some(n) : n \in NoteIds} : CallGetActionItems(note_id)
  \/ \E note_id \in {None} \cup {Some(n) : n \in NoteIds} : CallGetMeetingParticipants(note_id)

\* The process is connected and the remote holds one of ServerRemotes, as in
\* FullSyncInit; the lookup tools are called.
LookupSpec == FullSyncInit /\ [][LookupNext]_vars

-----------------------------------------------------------------------------
(* Two tool calls at a time: one starts while the other awaits a response *)

\* The call that runs stands at an await of syncNotesFromApi: its request has no
\* response yet, or the response has come and the code that awaits it has not run
\* on. Only there can other code of the process run.
Awaiting ==
  /\ pc \in {"listNotes", "notes", "listRecordings", "recordings"}
  /\ reply = None \/ idx = 1

\* What the call that runs needs to go on after its await.
Continuation ==
  [pc |-> pc, options |-> options, cursor |-> cursor, request |-> request, page |-> page,
   idx |-> idx, result |-> result, ret |-> ret, force |-> force, tool |-> tool,
   args |-> args, response |-> response, fetches |-> fetches, reply |-> reply,
   thrown |-> thrown]

\* The call that awaits leaves the thread to the event loop: the handler can be
\* called for another request.
Yield ==
  /\ Awaiting
  /\ other = None
  /\ other' = Some(Continuation)
  /\ pc' = "idle"
  /\ UNCHANGED <<remote, now, writes, calls, db, options, cursor, request, page, idx,
                 result, ret, force, histVars, config, server, cachedClient, tool, args,
                 response, httpVars>>

\* The event loop runs the call that was waiting on: the call that ran awaits, has
\* ended, or is none (the thread was idle). A call that has ended is kept in other
\* until the thread is idle.
Resume ==
  /\ other # None
  /\ other[1].pc \notin {"done", "failed"}
  /\ pc \in {"idle", "done", "failed"} \/ Awaiting
  /\ other' = IF pc = "idle" THEN None ELSE Some(Continuation)
  /\ pc' = other[1].pc
  /\ options' = other[1].options
  /\ cursor' = other[1].cursor
  /\ request' = other[1].request
  /\ page' = other[1].page
  /\ idx' = other[1].idx
  /\ result' = other[1].result
  /\ ret' = other[1].ret
  /\ force' = other[1].force
  /\ tool' = other[1].tool
  /\ args' = other[1].args
  /\ response' = other[1].response
  /\ fetches' = other[1].fetches
  /\ reply' = other[1].reply
  /\ thrown' = other[1].thrown
  /\ UNCHANGED <<remote, now, writes, calls, db, histVars, config, server, cachedClient>>

\* The queries and the emails the tools that read the store are called with here.
OverlapQueries == {Some(<<"b">>)}

OverlapEmails == {Some(<<EmailB>>)}

OverlapNext ==
  \/ \E n \in NoteIds, v \in NoteVersions : RemoteWriteNote(n, v)
  \/ \E force_ \in BOOLEAN : CallSyncMeetings(force_, None)
  \/ CallGetAllActionItems(None, None, None)
  \/ \E emails \in OverlapEmails : CallGetMeetingsByParticipants(emails, None)
  \/ \E query \in OverlapQueries : CallSearchCachedNotes(query)
  \/ CallGetSyncStatus
  \/ NotesPageArrives
  \/ SyncNoteStep
  \/ NextNotesPage
  \/ NotesDone
  \/ RecordingsPageArrives
  \/ SyncRecordingStep
  \/ NextRecordingsPage
  \/ FinishSync
  \/ Yield
  \/ Resume

\* The process is connected, the remote holds its first note and changes, no call
\* fails, and a tool can be called while a call awaits.
OverlapSpec == Init /\ [][OverlapNext]_vars

-----------------------------------------------------------------------------
(* Properties *)

\* The step taken is one turn of the loop over a page of notes, for the note e.
ProcessesNote(e) ==
  pc = "notes" /\ idx <= Len(page.data) /\ page.data[idx] = e /\ idx' = idx + 1

\* The step taken is one turn of the loop over a page of recordings, for e.
ProcessesRecording(e) ==
  pc = "recordings" /\ idx <= Len(page.data) /\ page.data[idx] = e /\ idx' = idx + 1

\* The entity of the page whose turn of the loop was the last step of the pass.
JustProcessed == page.data[idx - 1]

\* C1: once a note has stored content, no step makes it absent; the content
\* changes only in a step that upserts this note with the new content supplied,
\* and an upsert that supplies no content leaves the stored content as it is.
C1_ContentKept ==
  [][\A n \in NoteIds :
       (db.notes[n] # None /\ db.notes[n][1].content_markdown # None) =>
         /\ db'.notes[n] # None
         /\ db'.notes[n][1].content_markdown # None
         /\ (db'.notes[n][1].content_markdown # db.notes[n][1].content_markdown =>
               \E e \in {page.data[k] : k \in 1..Len(page.data)} :
                 /\ ProcessesNote(e)
                 /\ e.id = n
                 /\ e.content_markdown = db'.notes[n][1].content_markdown)
         /\ (\A e \in {page.data[k] : k \in 1..Len(page.data)} :
               (ProcessesNote(e) /\ e.id = n /\ e.content_markdown = None) =>
                 db'.notes[n][1].content_markdown = db.notes[n][1].content_markdown)]_vars

\* C1 witness: a note was just upserted without content and the store holds
\* content for it.
C1_Witness ==
  /\ pc = "notes"
  /\ idx > 1
  /\ JustProcessed.content_markdown = None
  /\ db.notes[JustProcessed.id][1].content_markdown # None

\* C2: once a recording has a stored transcript, no step makes it absent; the
\* transcript changes only in a step that upserts this recording with the new
\* transcript supplied, and a step that processes the recording without a
\* transcript leaves the stored transcript as it is.
C2_TranscriptKept ==
  [][\A r \in RecordingIds :
       (db.recordings[r] # None /\ db.recordings[r][1].transcript_json # None) =>
         /\ db'.recordings[r] # None
         /\ db'.recordings[r][1].transcript_json # None
         /\ (db'.recordings[r][1].transcript_json # db.recordings[r][1].transcript_json =>
               \E e \in {page.data[k] : k \in 1..Len(page.data)} :
                 /\ ProcessesRecording(e)
                 /\ e.id = r
                 /\ e.transcript # None
                 /\ db'.recordings[r][1].transcript_json = Some(JsonStringify(e.transcript[1])))
         /\ (\A e \in {page.data[k] : k \in 1..Len(page.data)} :
               (ProcessesRecording(e) /\ e.id = r /\ e.transcript = None) =>
                 db'.recordings[r][1].transcript_json = db.recordings[r][1].transcript_json)]_vars

\* C2 witness: a recording was just upserted without a transcript (its updated_at
\* is the one supplied) and the store holds a transcript for it.
C2_Witness ==
  /\ pc = "recordings"
  /\ idx > 1
  /\ JustProcessed.transcript = None
  /\ db.recordings[JustProcessed.id] # None
  /\ db.recordings[JustProcessed.id][1].updated_at = JustProcessed.updated_at
  /\ db.recordings[JustProcessed.id][1].transcript_json # None

\* C3: no stored recording names a note that is not in the notes table, and a
\* step that processes a recording whose note is not in the store writes nothing.
C3_NoOrphanRecording ==
  /\ [](\A r \in RecordingIds :
          (db.recordings[r] # None /\ db.recordings[r][1].note_id # None) =>
            db.notes[db.recordings[r][1].note_id[1]] # None)
  /\ [][\A e \in {page.data[k] : k \in 1..Len(page.data)} :
          (ProcessesRecording(e) /\ e.note_id # None /\ db.notes[e.note_id[1]] = None) =>
            db' = db /\ result' = result]_vars

\* C3 witness: a recording of a note that is not in the store was just processed
\* and is not in the store.
C3_Witness ==
  /\ pc = "recordings"
  /\ idx > 1
  /\ JustProcessed.note_id # None
  /\ db.notes[JustProcessed.note_id[1]] = None
  /\ db.recordings[JustProcessed.id] = None

\* C4: the watermark changes only in the step that ends a pass after the last
\* page of recordings (which follows the last page of notes) has been processed,
\* a step that returns the counts; after that step the pass is over, so it is
\* written once; a pass that ended well has set it to a later time than it had
\* when the pass started, and an aborted pass has left it as it was.
C4_WatermarkOnceAtEnd ==
  /\ [][db'.last_sync # db.last_sync =>
          /\ pc = "recordings" /\ idx > Len(page.data) /\ page.cursor = None
          /\ request.endpoint = "/recordings"
          /\ pc' = "done"
          /\ ret' = Some([isError |-> FALSE, result |-> Some(result)])
          /\ db' = [db EXCEPT !.last_sync = Some(now')]
          /\ now' > now]_vars
  /\ [](pc = "done" =>
          /\ db.last_sync # None
          /\ db0.last_sync # None => db.last_sync[1] > db0.last_sync[1])
  /\ [](pc \in {"listNotes", "notes", "listRecordings", "recordings", "failed"} =>
          db.last_sync = db0.last_sync)

\* C4 witness: a pass was aborted after it had written to the store, with a
\* watermark stored before it.
C4_Witness ==
  /\ pc = "failed"
  /\ db # db0
  /\ db.last_sync # None

\* A pass is running: a request is outstanding or a page is being processed.
InPass == pc \in {"listNotes", "notes", "listRecordings", "recordings"}

\* The options of syncNotesFromApi(client, db): a full sync.
FullSyncOptions == [since |-> None, includeTranscripts |-> None]

\* C5: in an incremental sync started with no watermark stored, every request is
\* the request a full sync issues at that point (it carries no updated_at_start);
\* and when the pass has ended, with the remote unchanged meanwhile, the store
\* (watermark included) and the counts returned are those of a full sync run
\* from the store the pass started with.
C5_NoWatermarkIsFullSync ==
  /\ (InPass /\ ~force /\ db0.last_sync = None) =>
       /\ request.updated_at_start = None
       /\ request = IF request.endpoint = "/notes"
                    THEN NotesRequest(FullSyncOptions, request.cursor)
                    ELSE RecordingsRequest(FullSyncOptions, request.cursor)
  /\ (pc = "done" /\ ~force /\ db0.last_sync = None /\ stable) =>
       /\ db.last_sync # None
       /\ LET full == syncNotesFromApi(db0, remote, FullSyncOptions, db.last_sync[1])
          IN /\ db = full.db
             /\ ret = Some([isError |-> FALSE, result |-> Some(full.result)])

\* C5 witness: an incremental sync started with no watermark has ended, having
\* stored a note and a recording, with the remote unchanged meanwhile.
C5_Witness ==
  /\ pc = "done"
  /\ ~force
  /\ db0.last_sync = None
  /\ stable
  /\ result.notes_synced > 0
  /\ result.recordings_synced > 0

\* C6: every request of an incremental pass carries updated_at_start = the
\* watermark stored when the pass started (none when none was stored), and no
\* request of a forced pass carries updated_at_start.
C6_SinceIsWatermark ==
  InPass => request.updated_at_start = (IF force THEN None ELSE db0.last_sync)

\* C6 witness: an incremental pass with a stored watermark has asked for a page
\* of recordings that is not the first one.
C6_Witness ==
  /\ pc = "listRecordings"
  /\ ~force
  /\ db0.last_sync # None
  /\ request.cursor # None

\* C7: an aborted pass has given its caller the failure and no counts; while the
\* call stays aborted nothing of the pass or of the store changes; a pass is
\* aborted only at a remote call, and the step that aborts it leaves the store
\* with everything written before; a remote call ends in one of two ways only, the
\* page it returns being taken up or the pass being aborted.
C7_FailureAbortsPass ==
  /\ [](pc = "failed" => ret = Some([isError |-> TRUE, result |-> None]))
  /\ [][pc = "failed" =>
          \/ pc' = "failed" /\ db' = db /\ UNCHANGED passVars
          \/ calls' = calls + 1 /\ db' = db]_vars
  /\ [][(pc # "failed" /\ pc' = "failed") =>
          /\ pc \in {"listNotes", "listRecordings"}
          /\ db' = db]_vars
  /\ [][(pc \in {"listNotes", "listRecordings"} /\ pc' # pc) =>
          \/ /\ pc' = "failed"
             /\ ret' = Some([isError |-> TRUE, result |-> None])
          \/ /\ pc' = IF pc = "listNotes" THEN "notes" ELSE "recordings"
             /\ page' = IF pc = "listNotes"
                        THEN NotesResponse(remote.notes, request)
                        ELSE RecordingsResponse(remote.recordings, request)
             /\ db' = db]_vars

\* C7 witness: a pass was aborted at a request for recordings, after it had
\* counted notes and recordings.
C7_Witness ==
  /\ pc = "failed"
  /\ request.endpoint = "/recordings"
  /\ result.notes_synced > 0
  /\ result.recordings_synced > 0

\* The filter a is the same as, or older than, the filter b (no filter is the
\* oldest: it selects everything).
SinceNotLater(a, b) == a = None \/ (b # None /\ a[1] <= b[1])

\* A pass with these options asks for transcripts.
WantsTranscripts(o) == Coalesce(o.includeTranscripts, Some(FALSE))[1]

\* A pass has ended well after a row of aborted passes, with the remote unchanged
\* since the first of them started, and its filter is not later than theirs.
Repaired ==
  /\ pc = "done"
  /\ aborted # {}
  /\ preStable
  /\ \A o \in aborted : SinceNotLater(options.since, o.since)

\* The store d holds the notes, recordings, action items and participants that one
\* uninterrupted pass with the options of the last pass leaves, run from the store
\* pre against the remote as it is.
SameAsOnePassFromPre(d) ==
  LET one == syncNotesFromApi(pre, remote, options, d.last_sync[1]).db
  IN /\ d.notes = one.notes
     /\ d.recordings = one.recordings
     /\ d.action_items = one.action_items
     /\ d.participants = one.participants

\* C8 as stated: after an aborted pass, with the remote unchanged, one successful
\* pass with the same or an older watermark leaves notes, recordings, action items
\* and participants as one uninterrupted pass from the store before the failure
\* would.
C8_Original == Repaired => SameAsOnePassFromPre(db)

\* C8 amended: the same, provided the repairing pass asks for transcripts whenever
\* an aborted pass did; in any case the two stores differ at most in transcripts,
\* which the repaired store keeps from an aborted pass.
C8_RepairAfterAbort ==
  Repaired =>
    LET one == syncNotesFromApi(pre, remote, options, db.last_sync[1]).db
    IN /\ ((\E o \in aborted : WantsTranscripts(o)) => WantsTranscripts(options))
          => SameAsOnePassFromPre(db)
       /\ db.notes = one.notes
       /\ db.action_items = one.action_items
       /\ db.participants = one.participants
       /\ \A r \in RecordingIds :
            /\ db.recordings[r] = None <=> one.recordings[r] = None
            /\ db.recordings[r] # None =>
                 /\ [db.recordings[r][1] EXCEPT !.transcript_json = None]
                      = [one.recordings[r][1] EXCEPT !.transcript_json = None]
                 /\ one.recordings[r][1].transcript_json # None
                      => db.recordings[r][1].transcript_json
                           = one.recordings[r][1].transcript_json

\* C8 witness: the aborted pass had written to the store, and the repairing pass,
\* which asked for transcripts if the aborted one did, stored a recording more.
C8_Witness ==
  /\ Repaired
  /\ (\E o \in aborted : WantsTranscripts(o)) => WantsTranscripts(options)
  /\ db0.notes # pre.notes
  /\ db.recordings # db0.recordings

\* The entities of the page being processed.
PageEntries == {page.data[k] : k \in 1..Len(page.data)}

\* The rows insertActionItem leaves for the items the extractor yields, in order.
StoredActionItems(items) ==
  [k \in 1..Len(items) |->
     [content |-> items[k].content,
      assignee |-> items[k].assignee,
      due_date |-> items[k].due_date,
      is_completed |-> IF items[k].is_completed THEN 1 ELSE 0]]

\* The step taken replaces the action items of note e by those the extractor
\* yields for its content, and leaves the action items of every other note.
ReplacesActionItems(e) ==
  /\ db'.action_items[e.id] = StoredActionItems(extractActionItems(e.content_markdown[1]))
  /\ \A m \in NoteIds \ {e.id} : db'.action_items[m] = db.action_items[m]

\* C9 as stated: processing a note whose content is present (the empty text
\* included) leaves for it exactly the action items the extractor yields for that
\* content, whatever it had before, and leaves those of every other note.
C9_Original ==
  [][\A e \in PageEntries :
       (ProcessesNote(e) /\ e.content_markdown # None) => ReplacesActionItems(e)]_vars

\* C9, what the code does: the replacement happens when the content is not empty;
\* a note processed with no content or with empty content keeps all its rows.
C9_NonEmptyContentReplaces ==
  [][\A e \in PageEntries :
       /\ (ProcessesNote(e) /\ Truthy(e.content_markdown)) => ReplacesActionItems(e)
       /\ (ProcessesNote(e) /\ ~Truthy(e.content_markdown)) =>
            db'.action_items = db.action_items]_vars

\* C9 witness: a note was just processed with content present and empty, and the
\* store still holds action items for it.
C9_Witness ==
  /\ pc = "notes"
  /\ idx > 1
  /\ JustProcessed.content_markdown = Some(<<>>)
  /\ db.action_items[JustProcessed.id] # <<>>

\* The emails insertParticipant is called with for an attendee list: each entry
\* trimmed, blank entries left out.
StoredEmails(list) == {Trim(list[k]) : k \in {j \in 1..Len(list) : ValidEmail(list[j])}}

\* The emails of the participant rows of note n in the store d.
ParticipantEmails(d, n) == {d.participants[n][k] : k \in 1..Len(d.participants[n])}

\* C10 as stated: processing a note for which an attendee list is supplied (the
\* empty list included) leaves for it exactly the emails of that list; rows of an
\* earlier sync that are not in the list are gone.
C10_Original ==
  [][\A e \in PageEntries :
       (ProcessesNote(e) /\ e.event_attendees # None) =>
         ParticipantEmails(db', e.id) = StoredEmails(e.event_attendees[1])]_vars

\* C10, what the code does: the rows are replaced when the list is not empty; a
\* note processed with no list or with an empty list keeps all its rows.
C10_NonEmptyListReplaces ==
  [][\A e \in PageEntries :
       /\ (ProcessesNote(e) /\ Truthy(e.event_attendees)) =>
            /\ ParticipantEmails(db', e.id) = StoredEmails(e.event_attendees[1])
            /\ Len(db'.participants[e.id]) = Cardinality(StoredEmails(e.event_attendees[1]))
            /\ \A m \in NoteIds \ {e.id} : db'.participants[m] = db.participants[m]
       /\ (ProcessesNote(e) /\ ~Truthy(e.event_attendees)) =>
            db'.participants = db.participants]_vars

\* C10 witness: a note was just processed with an empty attendee list supplied,
\* and the store still holds participants for it.
C10_Witness ==
  /\ pc = "notes"
  /\ idx > 1
  /\ JustProcessed.event_attendees = Some(<<>>)
  /\ db.participants[JustProcessed.id] # <<>>

-----------------------------------------------------------------------------
\* C11: in every reachable store the participants table holds at most one row
\* for each pair of a note and an email.
C11_ParticipantPairsUnique ==
  \A n \in NoteIds :
    \A i, j \in 1..Len(db.participants[n]) :
      db.participants[n][i] = db.participants[n][j] => i = j

\* C11 witness: a note whose attendee list names the same email twice (once with
\* white space around it) was just processed, and the store holds one row for it.
C11_Witness ==
  /\ pc = "notes"
  /\ idx > 1
  /\ JustProcessed.event_attendees = Some(<<<<" ">> \o EmailB, EmailB>>)
  /\ db.participants[JustProcessed.id] = <<EmailB>>

\* The number of rows a turn of the loop over notes has put in the participants
\* table for the note e: the rows of the note after the turn when the turn
\* replaced them (they were all inserted by it), none otherwise.
ParticipantRowsInserted(e) ==
  IF Truthy(e.event_attendees) THEN Len(db'.participants[e.id]) ELSE 0

\* The number of action items a turn of the loop over notes has inserted for e.
ActionItemRowsInserted(e) ==
  IF Truthy(e.content_markdown) THEN Len(db'.action_items[e.id]) ELSE 0

\* The number of recordings a turn of the loop over recordings has upserted for
\* e: one when the store holds e afterwards as the remote sent it, none when e is
\* an orphan (its note is not in the store) and the store is as it was.
RecordingRowsUpserted(e) ==
  IF e.note_id # None /\ db.notes[e.note_id[1]] = None
  THEN (IF db' = db THEN 0 ELSE 1)
  ELSE (IF /\ db'.recordings[e.id] # None
           /\ db'.recordings[e.id][1].updated_at = e.updated_at
           /\ db'.recordings[e.id][1].note_id = e.note_id
        THEN 1 ELSE 0)

\* C12 as claimed: every turn of the loops adds to the counts of the pass what
\* it did to the store: one note upserted, one recording upserted unless it was
\* skipped, the action items inserted, and the participant rows inserted; a step
\* that is no turn of a loop leaves the counts of a running pass alone, and the
\* pass returns the counts.
C12_Original ==
  /\ [][\A e \in PageEntries :
          /\ ProcessesNote(e) =>
                /\ result'.notes_synced = result.notes_synced + 1
                /\ result'.recordings_synced = result.recordings_synced
                /\ result'.action_items_found =
                     result.action_items_found + ActionItemRowsInserted(e)
                /\ result'.participants_synced =
                     result.participants_synced + ParticipantRowsInserted(e)
          /\ ProcessesRecording(e) =>
                /\ result'.recordings_synced =
                     result.recordings_synced + RecordingRowsUpserted(e)
                /\ result'.notes_synced = result.notes_synced
                /\ result'.action_items_found = result.action_items_found
                /\ result'.participants_synced = result.participants_synced]_vars
  /\ [](pc = "done" => ret = Some([isError |-> FALSE, result |-> Some(result)]))

\* C12 without the claim on participants_synced for lists that repeat an email:
\* participants_synced grows by the number of rows inserted when the valid emails
\* of the list are pairwise different once trimmed, and by no less otherwise.
C12_CountsAttendeeEntries ==
  /\ [][\A e \in PageEntries :
          /\ ProcessesNote(e) =>
                /\ result'.notes_synced = result.notes_synced + 1
                /\ result'.recordings_synced = result.recordings_synced
                /\ result'.action_items_found =
                     result.action_items_found + ActionItemRowsInserted(e)
                /\ result'.participants_synced >=
                     result.participants_synced + ParticipantRowsInserted(e)
                /\ (Truthy(e.event_attendees) /\
                     (\A i, j \in 1..Len(e.event_attendees[1]) :
                        (/\ ValidEmail(e.event_attendees[1][i])
                         /\ ValidEmail(e.event_attendees[1][j])
                         /\ Trim(e.event_attendees[1][i]) = Trim(e.event_attendees[1][j])) => i = j))
                    => result'.participants_synced =
                         result.participants_synced + ParticipantRowsInserted(e)
          /\ ProcessesRecording(e) =>
                /\ result'.recordings_synced =
                     result.recordings_synced + RecordingRowsUpserted(e)
                /\ result'.notes_synced = result.notes_synced
                /\ result'.action_items_found = result.action_items_found
                /\ result'.participants_synced = result.participants_synced]_vars
  /\ [](pc = "done" => ret = Some([isError |-> FALSE, result |-> Some(result)]))

\* C12 witness: a pass has ended well after a note with a repeated attendee, and
\* has counted two participants where the store holds one row for the note.
C12_Witness ==
  /\ pc = "done"
  /\ ret # None
  /\ ret[1].result # None
  /\ ret[1].result[1].participants_synced = 2
  /\ \E n \in NoteIds : Len(db.participants[n]) = 1
  /\ \A n \in NoteIds : Len(db.participants[n]) <= 1

-----------------------------------------------------------------------------
\* The text the handler returned for the last call (when it returned one).
ReturnedText == response[1].returns[1].text

\* The last call was of get_all_action_items, its sync was aborted, and the
\* handler is done with it.
ActionItemsSyncFailed ==
  /\ tool = "get_all_action_items"
  /\ pc = "failed"
  /\ thrown # None
  /\ response # None

\* The action items of the store that match the filters of the arguments a, as
\* pairs of a note and a place among the action items of the note: the assignee
\* holds the text asked for, the item is open unless show_completed is set, the
\* event of the note starts no earlier than since.
MatchingActionItems(d, a) ==
  {nk \in UNION {{<<n, k>> : k \in 1..Len(d.action_items[n])} : n \in NoteIds} :
     /\ d.notes[nk[1]] # None
     /\ Truthy(a.assignee) =>
          /\ d.action_items[nk[1]][nk[2]].assignee # None
          /\ IndexOf(LowerCase(d.action_items[nk[1]][nk[2]].assignee[1]),
                     LowerCase(a.assignee[1])) >= 0
     /\ a.show_completed # Some(TRUE) => d.action_items[nk[1]][nk[2]].is_completed = 0
     /\ a.since # None =>
          /\ d.notes[nk[1]][1].event_start # None
          /\ d.notes[nk[1]][1].event_start[1] >= a.since[1]}

\* The action items a text of get_all_action_items lists, as records of what is
\* printed of each.
ListedActionItems(text) ==
  IF "byMeeting" \in DOMAIN text
  THEN UNION {{[title |-> text.byMeeting[g].note_title,
                content |-> text.byMeeting[g].items[k].content,
                assignee |-> text.byMeeting[g].items[k].assignee,
                due_date |-> text.byMeeting[g].items[k].due_date,
                is_completed |-> text.byMeeting[g].items[k].is_completed]
                 : k \in 1..Len(text.byMeeting[g].items)} : g \in 1..Len(text.byMeeting)}
  ELSE {}

\* The same records, of the matching action items of the store.
CachedActionItems(d, a) ==
  {[title |-> d.notes[nk[1]][1].title,
    content |-> d.action_items[nk[1]][nk[2]].content,
    assignee |-> d.action_items[nk[1]][nk[2]].assignee,
    due_date |-> d.action_items[nk[1]][nk[2]].due_date,
    is_completed |-> d.action_items[nk[1]][nk[2]].is_completed = 1]
     : nk \in MatchingActionItems(d, a)}

\* The text tells that the sync failed, with the message of the failure.
TellsSyncFailed(text) ==
  /\ "syncError" \in DOMAIN text
  /\ text.syncError # None
  /\ text.syncError = thrown

\* C13 as claimed: when the sync of get_all_action_items fails, the handler
\* returns a result that is no error, that lists the cached action items
\* matching the filters, and that tells the caller that the sync failed.
C13_Original ==
  ActionItemsSyncFailed =>
    /\ response[1].returns # None
    /\ ~response[1].returns[1].isError
    /\ ListedActionItems(ReturnedText) = CachedActionItems(db, args)
    /\ TellsSyncFailed(ReturnedText)

\* C13 as the code has it: the result is no error and lists the matching cached
\* action items; it tells of the failed sync exactly when no cached item matches.
C13_FailureToldOnlyWhenNothingMatches ==
  ActionItemsSyncFailed =>
    /\ response[1].returns # None
    /\ ~response[1].returns[1].isError
    /\ ListedActionItems(ReturnedText) = CachedActionItems(db, args)
    /\ TellsSyncFailed(ReturnedText) <=> CachedActionItems(db, args) = {}

\* C13 witness: the sync of get_all_action_items has failed and the result lists
\* a cached action item.
C13_Witness ==
  /\ ActionItemsSyncFailed
  /\ thrown # None
  /\ response[1].returns # None
  /\ ListedActionItems(ReturnedText) # {}

-----------------------------------------------------------------------------
\* The API key or the subdomain is missing (not given, or given empty).
ConfigMissing == ~Truthy(config.apiKey) \/ ~Truthy(config.subdomain)

\* C14 as claimed: whatever the tool name and whatever fails, a tool call that
\* has ended has returned a result; the handler has thrown nothing.
C14_Original ==
  response # None =>
    /\ response[1].throws = None
    /\ response[1].returns # None

\* C14 as the code has it: a call ends with an error thrown out of the handler
\* exactly when the API key or the subdomain is missing, and the error is the one
\* of parseArgs; every other call that has ended has returned a result, which is
\* an error result after a failed request of sync_meetings and for a tool of an
\* unknown name.
C14_OnlyMissingConfigEscapes ==
  response # None =>
    /\ response[1].throws # None <=> ConfigMissing
    /\ response[1].throws # None =>
         /\ response[1].returns = None
         /\ response[1].throws = Some(parseArgs(config).error)
    /\ response[1].throws = None =>
         /\ response[1].returns # None
         /\ (tool = "sync_meetings" /\ thrown # None) =>
              response[1].returns[1] = ErrorResult(thrown[1])
         /\ tool = "no_such_tool" => response[1].returns[1].isError

\* C14 witness: a call of a tool that reads only the store has ended with the
\* error of parseArgs thrown out of the handler.
C14_Witness ==
  /\ server = "connected"
  /\ tool = "get_sync_status"
  /\ response # None
  /\ response[1].throws # None

\* C15 as claimed: the server is never connected, able to take tool calls, while
\* the API key or the subdomain is missing.
C15_Original == server = "connected" => ~ConfigMissing

\* C15 as the code has it: with the API key or the subdomain missing the server
\* connects all the same; the lack shows at each tool call, which throws before
\* it reads the store or calls the remote, and no client is ever made.
C15_MissingConfigFailsEachCall ==
  ConfigMissing =>
    /\ cachedClient = None
    /\ pc = "idle"
    /\ fetches = 0
    /\ db = db0
    /\ response # None => response[1].throws = Some(parseArgs(config).error)
    /\ calls > 0 => response # None

\* C15 witness: the server is connected without an API key and a tool call has
\* been made.
C15_Witness ==
  /\ server = "connected"
  /\ ~Truthy(config.apiKey)
  /\ calls > 0

-----------------------------------------------------------------------------
\* The last call was of get_meetings_by_participants with a list of at least one
\* email, and the handler has returned.
ParticipantsQueried ==
  /\ tool = "get_meetings_by_participants"
  /\ response # None
  /\ response[1].returns # None
  /\ ~response[1].returns[1].isError
  /\ args # NoArgs
  /\ args.emails # None
  /\ Len(args.emails[1]) > 0

\* The ids of the notes a text of get_meetings_by_participants lists, in order.
ListedMeetings(text) ==
  IF "meetings" \in DOMAIN text
  THEN [k \in 1..Len(text.meetings) |-> text.meetings[k].id]
  ELSE <<>>

\* The stored notes that have a participant row for every email of the list.
NotesWithEveryEmail(d, emails) ==
  {n \in NoteIds : d.notes[n] # None /\ \A e \in Range(emails) : e \in Range(d.participants[n])}

\* The stored notes that have a participant row for at least one email of the list.
NotesWithSomeEmail(d, emails) ==
  {n \in NoteIds : d.notes[n] # None /\ \E e \in Range(emails) : e \in Range(d.participants[n])}

\* Every element of the list occurs in it once.
EachOnce(list) == \A i, j \in 1..Len(list) : list[i] = list[j] => i = j

\* C16 as claimed: for a list of at least one email, the query for all
\* participants returns exactly the notes with a row for every email of the
\* list, the query for any participant returns exactly the notes with a row for
\* at least one of them, each note once, and so the former are among the latter.
C16_Original ==
  ParticipantsQueried =>
    /\ EachOnce(ListedMeetings(ReturnedText))
    /\ Range(ListedMeetings(ReturnedText)) =
         IF args.require_all = Some(TRUE)
         THEN NotesWithEveryEmail(db, args.emails[1])
         ELSE NotesWithSomeEmail(db, args.emails[1])
    /\ {m.id : m \in Range(getMeetingsWithAllParticipants(db, args.emails[1]))}
         \subseteq {m.id : m \in Range(getMeetingsByParticipants(db, args.emails[1]))}

\* C16 for lists that name no email twice; for a list that names an email twice
\* the query for all participants returns no note.
C16_ListsWithoutRepeats ==
  ParticipantsQueried =>
    /\ EachOnce(ListedMeetings(ReturnedText))
    /\ Range(ListedMeetings(ReturnedText)) =
         IF args.require_all = Some(TRUE)
         THEN (IF EachOnce(args.emails[1])
               THEN NotesWithEveryEmail(db, args.emails[1]) ELSE {})
         ELSE NotesWithSomeEmail(db, args.emails[1])
    /\ {m.id : m \in Range(getMeetingsWithAllParticipants(db, args.emails[1]))}
         \subseteq {m.id : m \in Range(getMeetingsByParticipants(db, args.emails[1]))}

\* C16 witness: the query for all of a@x and b@x has returned one of the two
\* stored notes that have a row for b@x.
C16_Witness ==
  /\ ParticipantsQueried
  /\ args.require_all = Some(TRUE)
  /\ args.emails = Some(<<EmailA, EmailB>>)
  /\ Len(ListedMeetings(ReturnedText)) = 1
  /\ Cardinality(NotesWithSomeEmail(db, <<EmailB>>)) = 2

-----------------------------------------------------------------------------
\* The last call was of search_cached_notes with a query that is not blank, and
\* the handler has returned.
SearchQueried ==
  /\ tool = "search_cached_notes"
  /\ response # None
  /\ response[1].returns # None
  /\ ~response[1].returns[1].isError
  /\ args # NoArgs
  /\ Truthy(args.query)
  /\ Len(Trim(args.query[1])) > 0

\* The notes a text of search_cached_notes lists, in order.
ListedNotes(text) == IF "notes" \in DOMAIN text THEN text.notes ELSE <<>>

\* q occurs in text, the case of letters set aside.
OccursIn(q, text) == IndexOf(LowerCase(text), LowerCase(q)) >= 0

\* The stored notes in whose title or content the query occurs.
NotesHolding(d, q) ==
  {n \in NoteIds :
     /\ d.notes[n] # None
     /\ \/ OccursIn(q, d.notes[n][1].title)
        \/ /\ d.notes[n][1].content_markdown # None
           /\ OccursIn(q, d.notes[n][1].content_markdown[1])}

\* C17 as claimed: search_cached_notes returns exactly the stored notes in whose
\* title or content the query occurs, the case of letters set aside; and for
\* every returned note whose content holds the query, the snippet holds it.
C17_Original ==
  SearchQueried =>
    /\ {m.id : m \in Range(ListedNotes(ReturnedText))} = NotesHolding(db, args.query[1])
    /\ \A m \in Range(ListedNotes(ReturnedText)) :
         (/\ db.notes[m.id][1].content_markdown # None
          /\ OccursIn(args.query[1], db.notes[m.id][1].content_markdown[1]))
           => (m.snippet # None /\ OccursIn(args.query[1], m.snippet[1]))

\* C17 as the code has it: every note in whose title or content the query occurs
\* is returned, and no other when the query has neither % nor _ in it; a
\* returned note whose content holds the query has a snippet, which holds the
\* query when the query has no line break in it, and which is at most the query
\* with SnippetContext characters and three dots on either side.
C17_LiteralQueries ==
  SearchQueried =>
    /\ NotesHolding(db, args.query[1]) \subseteq {m.id : m \in Range(ListedNotes(ReturnedText))}
    /\ ("%" \notin Range(args.query[1]) /\ "_" \notin Range(args.query[1])) =>
         {m.id : m \in Range(ListedNotes(ReturnedText))} = NotesHolding(db, args.query[1])
    /\ \A m \in Range(ListedNotes(ReturnedText)) :
         (/\ db.notes[m.id][1].content_markdown # None
          /\ OccursIn(args.query[1], db.notes[m.id][1].content_markdown[1]))
           => /\ m.snippet # None
              /\ Len(m.snippet[1]) <= Len(args.query[1]) + 2 * SnippetContext + 6
              /\ "\n" \notin Range(args.query[1]) => OccursIn(args.query[1], m.snippet[1])

\* C17 witness: the query "due" has returned the note whose content ends in
\* "Due" after 52 other characters, with a snippet that starts with three dots.
C17_Witness ==
  /\ SearchQueried
  /\ args.query = Some(<<"d", "u", "e">>)
  /\ Len(ListedNotes(ReturnedText)) = 1
  /\ ListedNotes(ReturnedText)[1].snippet # None
  /\ SubSeq(ListedNotes(ReturnedText)[1].snippet[1], 1, 3) = <<".", ".", ".">>
  /\ Len(ListedNotes(ReturnedText)[1].snippet[1]) = 56

-----------------------------------------------------------------------------
\* A client call is outstanding: a list request has been issued and its response
\* has not been dealt with.
ClientCallOutstanding == pc \in {"listNotes", "listRecordings"}

\* C18: a client call makes one call of fetch; fetch is called only to start a
\* client call for another request or for a new tool call; when a client call has
\* thrown, the response was not ok and the error carries its status and its raw
\* body; after that no request is issued until the next tool call (the pass is
\* aborted, and the handler returns: sync_meetings the error, with status and
\* body in the message).
C18_OneRequestNoRetry ==
  /\ [](ClientCallOutstanding => fetches = 1 /\ thrown = None)
  /\ [](fetches <= 1)
  /\ [][fetches' # fetches \/ reply' # reply =>
          \/ calls' = calls + 1
          \/ /\ fetches' = 1 /\ reply' = None
             /\ ~ClientCallOutstanding /\ ClientCallOutstanding'
             /\ request' # request
          \/ /\ fetches' = fetches /\ reply' # None
             /\ ClientCallOutstanding /\ ~ClientCallOutstanding']_vars
  /\ [](thrown # None =>
          /\ reply # None
          /\ ~reply[1].ok
          /\ thrown[1] = <<"Fellow API error (", reply[1].status, "): ", reply[1].body>>
          /\ pc = "failed"
          /\ response # None
          /\ response[1].throws = None
          /\ tool = "sync_meetings" =>
               response[1].returns[1] = [isError |-> TRUE, text |-> <<"Error: ", thrown[1]>>])
  /\ [][thrown # None =>
          \/ UNCHANGED <<fetches, reply, request, pc, thrown>>
          \/ calls' = calls + 1]_vars

\* C18 witness: the request for the second page of notes was answered with the
\* status 500 and an empty body, and sync_meetings has returned the error.
C18_Witness ==
  /\ tool = "sync_meetings"
  /\ pc = "failed"
  /\ request.endpoint = "/notes"
  /\ request.cursor # None
  /\ fetches = 1
  /\ thrown = Some(<<"Fellow API error (", 500, "): ", "">>)
  /\ response # None
  /\ response[1].returns # None
  /\ response[1].returns[1].isError

-----------------------------------------------------------------------------
\* A forced sync_meetings has completed, and the remote has not changed since the
\* call started: what the remote returned during the pass is what it holds.
ForcedSyncCompleted ==
  /\ tool = "sync_meetings"
  /\ force
  /\ pc = "done"
  /\ stable

\* The action item rows the content of note n on the remote yields.
RemoteActionItems(n) ==
  IF remote.notes[n] # None /\ remote.notes[n][1].content_markdown # None
  THEN StoredActionItems(extractActionItems(remote.notes[n][1].content_markdown[1]))
  ELSE <<>>

\* The emails the attendee list of note n on the remote yields.
RemoteEmails(n) ==
  IF remote.notes[n] # None /\ remote.notes[n][1].event_attendees # None
  THEN StoredEmails(remote.notes[n][1].event_attendees[1])
  ELSE {}

\* C19 as stated: when a forced sync_meetings has completed, the store holds no
\* note, recording, action item or participant that the remote did not return
\* during that pass.
C19_Original ==
  ForcedSyncCompleted =>
    /\ \A n \in NoteIds :
         /\ db.notes[n] # None => remote.notes[n] # None
         /\ Range(db.action_items[n]) \subseteq Range(RemoteActionItems(n))
         /\ ParticipantEmails(db, n) \subseteq RemoteEmails(n)
    /\ \A r \in RecordingIds : db.recordings[r] # None => remote.recordings[r] # None

\* C19, what the code does: a forced pass deletes no note and no recording; it
\* removes action items and participants only of the notes it processes, and only
\* to replace them: every row the store held when the call started is still held
\* when it has completed, unless the remote returned for its note a content that
\* is not empty (action items) or an attendee list that is not empty
\* (participants).
C19_ForcedSyncKeepsRows ==
  ForcedSyncCompleted =>
    /\ \A n \in NoteIds :
         /\ db0.notes[n] # None => db.notes[n] # None
         /\ (remote.notes[n] = None \/ ~Truthy(remote.notes[n][1].content_markdown))
              => db.action_items[n] = db0.action_items[n]
         /\ (remote.notes[n] = None \/ ~Truthy(remote.notes[n][1].event_attendees))
              => db.participants[n] = db0.participants[n]
    /\ \A r \in RecordingIds : db0.recordings[r] # None => db.recordings[r] # None

\* C19 witness: a forced sync_meetings has completed on a remote whose note has
\* no action item and no attendee, and the store holds an action item and a
\* participant for that note.
C19_Witness ==
  /\ ForcedSyncCompleted
  /\ \E n \in NoteIds :
       /\ remote.notes[n] # None
       /\ RemoteActionItems(n) = <<>>
       /\ RemoteEmails(n) = {}
       /\ db.action_items[n] # <<>>
       /\ db.participants[n] # <<>>

-----------------------------------------------------------------------------
\* The tool call in progress, or the last one, is sync_meetings with
\* include_transcripts = true.
TranscriptsAsked == tool = "sync_meetings" /\ args.include_transcripts = Some(TRUE)

\* The pass is at the recordings: a list request for them is outstanding, or a
\* page of them is being processed.
AtRecordings == pc \in {"listRecordings", "recordings"}

\* The step taken stores the transcript the remote returned for e in the row of e.
StoresTranscript(e) ==
  /\ db'.recordings[e.id] # None
  /\ db'.recordings[e.id][1].transcript_json = Some(JsonStringify(e.transcript[1]))

\* C20 as stated: in a pass of sync_meetings called with include_transcripts =
\* true, forced or not, every list request for recordings asks for transcripts,
\* and a transcript returned for a recording that is stored is stored in its row.
C20_Original ==
  /\ []((TranscriptsAsked /\ AtRecordings) => "transcript" \in request.include)
  /\ [][\A e \in PageEntries :
          (ProcessesRecording(e) /\ e.transcript # None /\ ~SkipRecording(db, e))
            => StoresTranscript(e)]_vars

\* C20, what the code does: a list request for recordings asks for transcripts
\* exactly when sync_meetings was called with include_transcripts = true and
\* force = true; an incremental pass never asks for them, whatever the arguments,
\* and so is returned none. A transcript that is returned for a recording that
\* is stored is stored in its row.
C20_TranscriptsOnlyWhenForced ==
  /\ [](AtRecordings =>
          ("transcript" \in request.include <=> (TranscriptsAsked /\ force)))
  /\ []((pc = "recordings" /\ ~(TranscriptsAsked /\ force)) =>
          \A e \in PageEntries : e.transcript = None)
  /\ [][\A e \in PageEntries :
          (ProcessesRecording(e) /\ e.transcript # None /\ ~SkipRecording(db, e))
            => StoresTranscript(e)]_vars

\* C20 witness: an incremental sync_meetings called with include_transcripts =
\* true has completed while the remote stood still; a recording that has a
\* transcript on the remote was stored by this pass, without its transcript.
C20_Witness ==
  /\ TranscriptsAsked
  /\ ~force
  /\ pc = "done"
  /\ stable
  /\ \E r \in RecordingIds :
       /\ remote.recordings[r] # None
       /\ remote.recordings[r][1].transcript # None
       /\ db0.recordings[r] = None
       /\ db.recordings[r] # None
       /\ db.recordings[r][1].transcript_json = None

-----------------------------------------------------------------------------
\* The first of the three families whose pattern matches the line, in the order
\* check box, label, mention; "none" when no pattern matches.
FamilyOf(line) ==
  IF CheckboxMatch(line) # None THEN "checkbox"
  ELSE IF ActionMatch(line) # None THEN "labeled"
  ELSE IF MentionMatch(line) # None THEN "mention"
  ELSE "none"

\* The lines of the content that a pattern matches, in the order of the lines.
ItemLines(content) == SelectSeq(Split(content), LAMBDA line : FamilyOf(line) # "none")

\* The stored row item is what the family of the line makes of the line.
ItemOfFamily(item, line) ==
  \E family \in {FamilyOf(line)} :
    /\ family = "checkbox" =>
         \E m \in {CheckboxMatch(line)[1]} :
           /\ item.content = Trim(m.g2)
           /\ item.is_completed = (IF m.g1 \in {<<"x">>, <<"X">>} THEN 1 ELSE 0)
    /\ family = "labeled" =>
         /\ item.content = Trim(ActionMatch(line)[1])
         /\ item.is_completed = 0
    /\ family = "mention" =>
         \E m \in {MentionMatch(line)[1]} :
           /\ item.assignee = Some(Trim(Drop(m.g1, 1)))
           /\ item.content = <<"@">> \o item.assignee[1] \o <<":", " ">> \o Trim(m.g2)
           /\ item.is_completed = 0

\* C21: when a note is processed with a content that is not empty, the action
\* items stored for it are one for each line that a pattern matches and none for
\* the other lines, in the order of the lines, and each is what the first family
\* that matches its line makes of the line (the completion flag of a check box
\* line comes from the check box).
C21_FirstFamilyInLineOrder ==
  [][\A e \in PageEntries :
       (ProcessesNote(e) /\ Truthy(e.content_markdown)) =>
         \E lines \in {ItemLines(e.content_markdown[1])}, items \in {db'.action_items[e.id]} :
           /\ Len(items) = Len(lines)
           /\ Len(items) <= Len(Split(e.content_markdown[1]))
           /\ \A k \in 1..Len(items) : ItemOfFamily(items[k], lines[k])]_vars

\* C21 witness: the note processed has a mention line, a line of no family and a
\* completed check box line; the store holds two items for it, the one of the
\* mention line first.
C21_Witness ==
  /\ pc = "done"
  /\ remote.notes["n1"][1].content_markdown =
       Some(ExtractLines[7] \o <<"\n">> \o ExtractLines[1])
  /\ Len(db.action_items["n1"]) = 2
  /\ db.action_items["n1"][1].assignee = Some(<<"a", "l">>)
  /\ db.action_items["n1"][1].is_completed = 0
  /\ db.action_items["n1"][2].content = <<"a">>
  /\ db.action_items["n1"][2].is_completed = 1

-----------------------------------------------------------------------------
\* The text of a line that a pattern matches which is handed to
\* parseAssigneeAndDueDate: the trimmed last group of the match.
ParsedText(line) ==
  Value({(
      IF family = "checkbox" THEN Trim(CheckboxMatch(line)[1].g2)
      ELSE IF family = "labeled" THEN Trim(ActionMatch(line)[1])
      ELSE Trim(MentionMatch(line)[1].g2)
  ) : family \in {FamilyOf(line)}})

\* The number a text of digits denotes.
RECURSIVE NumberOf(_)
NumberOf(digits) ==
  IF digits = <<>> THEN 0
  ELSE 10 * NumberOf(Take(digits, Len(digits) - 1))
         + (CHOOSE v \in 0..9 : ToString(v) = digits[Len(digits)])

\* due is the US date us (month/day/year) normalized: the year, a two-digit year
\* prefixed with 20; the month and the day in two digits each; hyphens between.
UsNormalized(due, us) ==
  \E parts \in {SlashParts(us)}, n \in {Len(due)} :
    /\ n >= 7
    /\ SubSeq(due, 1, n - 6) =
         (IF Len(parts[3]) = 2 THEN <<"2", "0">> \o parts[3] ELSE parts[3])
    /\ due[n - 5] = "-"
    /\ NumberOf(SubSeq(due, n - 4, n - 3)) = NumberOf(parts[1])
    /\ due[n - 2] = "-"
    /\ NumberOf(SubSeq(due, n - 1, n)) = NumberOf(parts[2])

\* The due date due is what the claim says for the text: the ISO date after a
\* keyword when there is one; else the US date after a keyword, normalized; else
\* none.
DueDateOf(due, text) ==
  \E iso \in {DueDateSearch(text, TRUE)}, us \in {DueDateSearch(text, FALSE)} :
    /\ iso # None => due = iso
    /\ (iso = None /\ us # None) => (due # None /\ UsNormalized(due[1], us[1]))
    /\ (iso = None /\ us = None) => due = None

-----------------------------------------------------------------------------
\* The text has the form YYYY-MM-DD: four digits, two digits, two digits.
IsoForm(text) ==
  /\ Len(text) = 10
  /\ \A k \in {1, 2, 3, 4, 6, 7, 9, 10} : IsDigit(text[k])
  /\ text[5] = "-"
  /\ text[8] = "-"

\* The due dates of the action items in the store.
StoredDueDates ==
  UNION {{db.action_items[n][k].due_date[1] :
            k \in {j \in 1..Len(db.action_items[n]) : db.action_items[n][j].due_date # None}} :
         n \in NoteIds}

\* C23 as stated: every due date stored with an action item has the form
\* YYYY-MM-DD; a date text that does not fit gives no due date.
C23_Original == \A due \in StoredDueDates : IsoForm(due)

\* C23, what the code does: every due date stored is a year of three or four
\* digits, a month of two digits and a day of two digits, with hyphens between:
\* a US date with a year of three digits, which \d{2,4} matches, is stored with
\* that year as it is.
C23_YearOfThreeOrFourDigits ==
  \A due \in StoredDueDates :
    \/ IsoForm(due)
    \/ IsoForm(<<"0">> \o due)

\* C23 witness: the item "by 1/2/123" was synced and its stored due date is
\* 123-01-02.
C23_Witness ==
  /\ pc = "done"
  /\ remote.notes["n1"][1].content_markdown = Some(FamilyPrefixes[1] \o DueTexts[6])
  /\ StoredDueDates = {<<"1", "2", "3", "-", "0", "1", "-", "0", "2">>}

-----------------------------------------------------------------------------
\* The step taken issues a list request: a client call begins.
IssuesRequest ==
  /\ ClientCallOutstanding'
  /\ (~ClientCallOutstanding \/ request' # request)

\* Every entity of the page being processed has had its turn of the loop, and is
\* in the store in the version of the page: every note; and every recording but
\* those the loop skips, whose note the store does not hold.
PagePersisted ==
  /\ pc \in {"notes", "recordings"}
  /\ idx > Len(page.data)
  /\ \A e \in PageEntries :
       IF pc = "notes"
       THEN db.notes[e.id] # None /\ db.notes[e.id][1].updated_at = e.updated_at
       ELSE \/ SkipRecording(db, e)
            \/ db.recordings[e.id] # None /\ db.recordings[e.id][1].updated_at = e.updated_at

\* C24: in a pass no list request is issued while one is outstanding; a request is
\* issued either as the first of the pass, for notes and with no cursor, or when
\* every entity of the page before is persisted: then it is for the same family
\* with the cursor that page came with, or, the page being the last page of notes
\* (it came with no cursor), the first for recordings, with no cursor.
C24_OnePageAtATime ==
  /\ [](ClientCallOutstanding => fetches = 1)
  /\ [][ClientCallOutstanding => request' = request]_vars
  /\ [][IssuesRequest =>
          \/ /\ calls' = calls + 1
             /\ request'.endpoint = "/notes"
             /\ request'.cursor = None
          \/ /\ calls' = calls
             /\ PagePersisted
             /\ page.cursor # None
             /\ request'.endpoint = request.endpoint
             /\ request'.cursor = page.cursor
          \/ /\ calls' = calls
             /\ PagePersisted
             /\ page.cursor = None
             /\ request.endpoint = "/notes"
             /\ request'.endpoint = "/recordings"
             /\ request'.cursor = None]_vars

\* C24 witness: the request for the second page of notes is outstanding, with the
\* cursor of the first page, whose note is in the store.
C24_Witness ==
  /\ pc = "listNotes"
  /\ request.cursor # None
  /\ request.cursor = page.cursor
  /\ page.data # <<>>
  /\ \A e \in PageEntries :
       db.notes[e.id] # None /\ db.notes[e.id][1].updated_at = e.updated_at

-----------------------------------------------------------------------------
\* The page being processed came with a cursor and without entities: the remote
\* goes on paging.
EndlessPage == pc \in {"notes", "recordings"} /\ page.data = <<>> /\ page.cursor # None

\* The notes the remote holds.
RemoteNotes == {n \in NoteIds : remote.notes[n] # None}

\* C25: (1) if from some time on the remote ends its paging with a null cursor,
\* a running full sync completes; (2) when it has completed, every note the remote
\* returned is in the store in the version returned, and each was returned and
\* processed once, each page having been requested once; (3) a pass goes from the
\* notes to the recordings, and completes, only on a page that came with a null
\* cursor, and on a page with a cursor it can only request the next page; (4) so
\* if the remote never returns a null cursor for notes, or never for recordings,
\* no pass ever completes.
C25_TerminatesWhenCursorEnds ==
  /\ <>[]~EndlessPage => (InPass ~> pc = "done")
  /\ [](pc = "done" =>
          /\ \A n \in RemoteNotes :
               /\ db.notes[n] # None
               /\ db.notes[n][1].updated_at = remote.notes[n][1].updated_at
          /\ result.notes_synced = Cardinality(RemoteNotes))
  /\ [][(pc \in {"notes", "recordings"} /\ pc' # pc) =>
          IF page.cursor = None
          THEN pc' = (IF pc = "notes" THEN "listRecordings" ELSE "done")
          ELSE /\ pc' = (IF pc = "notes" THEN "listNotes" ELSE "listRecordings")
               /\ request'.cursor = page.cursor]_vars
  /\ [](pc = "notes" => page.cursor # None) => [](pc # "done")
  /\ [](pc = "recordings" => page.cursor # None) => [](pc # "done")

\* C25 witness: a full sync that started from an empty store has completed; it
\* took two pages of notes, and both notes are in the store.
C25_Witness ==
  /\ pc = "done"
  /\ force
  /\ result.notes_synced = 2
  /\ RemoteNotes = NoteIds
  /\ db0.notes = [n \in NoteIds |-> None]
  /\ \A n \in NoteIds : db.notes[n] # None

-----------------------------------------------------------------------------
\* The store holds note n in the version the remote holds.
HoldsLatest(n) ==
  /\ db.notes[n] # None
  /\ db.notes[n][1].updated_at = remote.notes[n][1].updated_at

\* An incremental sync_meetings has completed, and the remote has not changed
\* since the call started.
IncrementalSyncCompleted ==
  /\ tool = "sync_meetings"
  /\ ~force
  /\ pc = "done"
  /\ stable

\* C26 as stated: when an incremental sync has completed on a remote that had
\* stopped changing before it started, the store holds the latest version of
\* every note of the remote, whenever the note was created or updated.
C26_Original == IncrementalSyncCompleted => \A n \in RemoteNotes : HoldsLatest(n)

\* C26, what the code does: the pass asks for the notes updated since the
\* watermark, which is the time the pass before completed, not the time it
\* started. The store holds the latest version of every note updated at or after
\* that watermark (of every note, when there was no watermark); a note updated
\* while the pass before was running, after its page had been fetched, is older
\* than the watermark and is not asked for.
C26_LatestSinceWatermark ==
  IncrementalSyncCompleted =>
    \A n \in RemoteNotes :
      (options.since = None \/ remote.notes[n][1].updated_at >= options.since[1])
        => HoldsLatest(n)

\* C26 witness: an incremental sync has completed on a remote that stood still,
\* and the store holds a version of a note older than the remote's, which was
\* written before the watermark the pass asked from.
C26_Witness ==
  /\ IncrementalSyncCompleted
  /\ options.since # None
  /\ \E n \in RemoteNotes :
       /\ db.notes[n] # None
       /\ db.notes[n][1].updated_at < remote.notes[n][1].updated_at
       /\ remote.notes[n][1].updated_at < options.since[1]

-----------------------------------------------------------------------------
\* The action item rows the extractor yields for the stored content of note n:
\* none when the content is absent or empty.
ItemsOfStoredContent(n) ==
  IF Truthy(db.notes[n][1].content_markdown)
  THEN StoredActionItems(extractActionItems(db.notes[n][1].content_markdown[1]))
  ELSE <<>>

\* C27 as stated: when a pass has completed, the action items stored for each note
\* of the store are what the extractor yields for the stored content of the note.
C27_Original ==
  pc = "done" =>
    \A n \in NoteIds : db.notes[n] # None => db.action_items[n] = ItemsOfStoredContent(n)

\* C27, what the code does: this holds for each note whose stored content is
\* absent or not empty. A sync that supplies the empty text stores it as the
\* content and leaves the action items of the note as they were.
C27_UnlessContentEmptied ==
  pc = "done" =>
    \A n \in NoteIds :
      (db.notes[n] # None /\ db.notes[n][1].content_markdown # Some(<<>>))
        => db.action_items[n] = ItemsOfStoredContent(n)

\* C27 witness: a pass has completed; the stored content of a note is the empty
\* text and the store holds action items for the note.
C27_Witness ==
  /\ pc = "done"
  /\ \E n \in NoteIds :
       /\ db.notes[n] # None
       /\ db.notes[n][1].content_markdown = Some(<<>>)
       /\ db.action_items[n] # <<>>

-----------------------------------------------------------------------------
\* A lookup tool was called with the identifier it looks up by (get_meeting_summary,
\* get_action_items and get_meeting_participants with note_id, get_meeting_transcript
\* with recording_id), its request succeeded, and it has returned.
LookedUpById ==
  /\ tool \in LookupTools
  /\ response # None
  /\ response[1].returns # None
  /\ ~response[1].returns[1].isError
  /\ IF tool = "get_meeting_transcript" THEN args.recording_id # None ELSE args.note_id # None

\* The identifier asked for.
LookedUpId == IF tool = "get_meeting_transcript" THEN args.recording_id[1] ELSE args.note_id[1]

\* The remote's table of the kind of entity the tool looks up.
LookedUpTable == IF tool = "get_meeting_transcript" THEN remote.recordings ELSE remote.notes

\* The tool has returned the entity asked for, not a message that it is not found.
ReturnedEntity ==
  /\ response[1].returns[1].text.head \in
       {"# Transcript", "# Meeting Summary", "# Action Items", "# Participants"}
  /\ response[1].returns[1].text.id = LookedUpId

\* C28 as stated: a lookup by identifier returns the entity whenever the remote
\* holds an entity of that identifier, and the message that it is not found only
\* when the remote holds none.
C28_Original == LookedUpById => (ReturnedEntity <=> LookedUpTable[LookedUpId] # None)

\* C28, what the code does: the tools ask for the first page of the list, of 50
\* entities at most, and look for the identifier on that page only. The entity is
\* returned when it is on the first page; for an entity the remote holds beyond
\* the first page, as for one it does not hold, the message that it is not found
\* is returned.
C28_FoundOnFirstPageOnly ==
  LookedUpById =>
    /\ ReturnedEntity <=>
         LookedUpId \in Range(RemotePage(LookedUpTable,
                                         [updated_at_start |-> None, cursor |-> None,
                                          page_size |-> 50]).ids)
    /\ (ReturnedEntity /\ tool = "get_meeting_summary") =>
         response[1].returns[1].text.content = remote.notes[LookedUpId][1].content_markdown
    /\ (ReturnedEntity /\ tool = "get_meeting_participants") =>
         response[1].returns[1].text.attendees =
           Coalesce(remote.notes[LookedUpId][1].event_attendees, Some(<<>>))[1]
    /\ (ReturnedEntity /\ tool = "get_meeting_transcript") =>
         response[1].returns[1].text.transcript = remote.recordings[LookedUpId][1].transcript

\* C28 witness: get_action_items was called with the identifier of a note the
\* remote holds, and has returned that the note is not found.
C28_Witness ==
  /\ tool = "get_action_items"
  /\ LookedUpById
  /\ remote.notes[LookedUpId] # None
  /\ ~ReturnedEntity
  /\ response[1].returns[1].text.head =
       "Note not found. Please provide a valid note_id or meeting_title."

-----------------------------------------------------------------------------
\* A tool call has returned while a sync pass waits at one of its awaits: what it
\* returned, it read from the store as it stands.
ReadsDuringPass ==
  /\ other # None
  /\ other[1].pc \in {"listNotes", "notes", "listRecordings", "recordings"}
  /\ response # None

\* The store does not hold the latest version of note n, or it holds it with the
\* action items of its content (when it has content) and the participants of its
\* attendees (when it has attendees).
WrittenWhole(n) ==
  HoldsLatest(n) =>
    /\ Truthy(remote.notes[n][1].content_markdown) =>
         db.action_items[n] =
           StoredActionItems(extractActionItems(remote.notes[n][1].content_markdown[1]))
    /\ Truthy(remote.notes[n][1].event_attendees) =>
         db.participants[n] =
           InsertParticipants(EmptyDb, n, remote.notes[n][1].event_attendees[1]).participants[n]

\* C29: a tool call that reads the store while a sync pass is in progress, which
\* it can only while the pass awaits a response, finds every note the pass has
\* upserted with its action items and participants inserted again, never between
\* the clearing and the insertion; the pass waits with none of the entities of its
\* page processed (the response has not reached it) or with all of them.
C29_NoNoteHalfWritten ==
  ReadsDuringPass =>
    /\ \A n \in NoteIds : WrittenWhole(n)
    /\ other[1].pc \in {"notes", "recordings"} => other[1].idx = 1

\* C29 witness: get_meetings_by_participants has returned while a pass waits for
\* its first page of recordings; the pass has written a note that the store did
\* not hold when it started, in the version of the remote, with action items and
\* participants.
C29_Witness ==
  /\ ReadsDuringPass
  /\ tool = "get_meetings_by_participants"
  /\ other[1].pc = "listRecordings"
  /\ other[1].result.notes_synced = 1
  /\ \E n \in NoteIds :
       /\ db0.notes[n] = None
       /\ HoldsLatest(n)
       /\ db.action_items[n] # <<>>
       /\ db.participants[n] # <<>>

-----------------------------------------------------------------------------
\* Two sync passes that overlapped in time have both completed: one of them began
\* while the other awaited a response.
BothCompleted ==
  /\ pc = "done"
  /\ other # None
  /\ other[1].pc = "done"

\* C30 as stated, in a case of it: both passes were full syncs and the remote has
\* not changed since the later of them began, so that this pass fetched every note
\* in the version the remote holds; once both have completed the store holds each
\* note in that version.
C30_Original ==
  (BothCompleted /\ stable /\ options.since = None /\ other[1].options.since = None)
    => \A n \in RemoteNotes : HoldsLatest(n)

\* C30, what the code does: nothing orders the writes of two passes that overlap.
\* Each response is written to the store when the pass that awaited it runs on, so
\* the version of a note that is written last stays, also when it was fetched
\* first. Once both have completed, the store holds every note in the version of
\* the remote, completely written, when the remote has not changed; and the
\* watermark is the time the pass that completed last ended, later than the time
\* of every version the store holds.
C30_LastWriteStays ==
  BothCompleted =>
    /\ db.last_sync # None
    /\ \A n \in NoteIds : db.notes[n] # None => db.notes[n][1].updated_at < db.last_sync[1]
    /\ writes = 0 => \A n \in RemoteNotes : HoldsLatest(n) /\ WrittenWhole(n)

\* C30 witness: two passes that overlapped have completed on a remote that has not
\* changed; each has written the note of the remote, which the store holds.
C30_Witness ==
  /\ BothCompleted
  /\ writes = 0
  /\ result.notes_synced = 1
  /\ other[1].result.notes_synced = 1
  /\ tool # other[1].tool
  /\ HoldsLatest("n1")

=============================================================================
